---------------------------- MODULE Spec2Model ----------------------------
(***************************************************************************)
(* MarcSLM control system: the layer scheduler (ScanStreamingManager), the *)
(* process controller that drives it from the GUI thread, the OPC UA       *)
(* client state it consults and the PLC handshake tags.                    *)
(*                                                                         *)
(* Threads: the GUI thread (gPc), the producer task (producerPc) and the   *)
(* consumer task (consumerPc).  mMutex is the scheduler's std::mutex; a    *)
(* condition-variable wait is three positions: the predicate has been      *)
(* evaluated false with the mutex held ("_pre"), the thread is blocked in  *)
(* the wait set with the mutex released ("_blk"), and it has been woken    *)
(* and must re-acquire the mutex to re-evaluate (the position it started   *)
(* from).  A notify only reaches a thread that is in the wait set.         *)
(***************************************************************************)
EXTENDS Integers, Sequences, FiniteSets, TLC

\* ---------------------------------------------------------------- bounds
MaxLayers == 2      \* layers in the slice file / synthetic layer count
MaxCmds == 2        \* commands in one command block
MaxRuns == 2        \* process starts explored

\* ------------------------------------------------------------- constants
DefaultMaxQueue == 4   \* constructor: mMaxQueue(4)
MinMaxQueue == 2       \* setMaxQueuedLayers lower clamp
MaxMaxQueue == 10      \* setMaxQueuedLayers upper clamp

VARIABLES
    \* ScanStreamingManager: control flags, queue, mutex, tasks
    mStopRequested, mEmergencyStopFlag, mPLCPrepared, mProducerFinished,
    mLayerRequested, mProcessMode, mQueue, mMaxQueue, mTotalLayers, mMutex,
    producerPc, pLayer, consumerPc, layerNumber, cmdIdx,
    \* PLC handshake tags (Prepare2Process)
    LaySurface, LaySurface_Done, PreparingLayer,
    \* OPC UA clients: the worker's manager and the GUI's legacy controller
    workerOpc, ctrlOpc,
    \* ProcessController (GUI thread)
    mState, timerActive, mPreviousPowderSurfaceDone, gPc, pending, runs,
    errorConnected,
    \* observation of the run (what was called on the device and the PLC)
    hLayerEvents, lastExecuted, exitCause, exitDisabled, eStopCmd,
    furtherCmd, eStopPlcWrite,
    \* what the build does when a thread locks a std::mutex it already holds
    mutexRelock,
    \* RTC5DLLManager: reference count, and whether the RTC5 library is open
    sRefCount, rtc5Open, refBefore,
    \* result of the write_layer_parameters call of the layer in hand
    wlpResult,
    \* OPCServerManagerUA (one client object and the threads that call it)
    mStateMutex, mUaCallMutex, mIsInitialized, mConnectionLost, sessionOpen,
    cliPc, lostEmitted,
    \* Scanner (device adapter): owner thread, flags, mutex, last call
    mOwnerThread, scInitialized, mIsScanning, scMutex, adLast,
    \* what the observers of a run receive: progress, layerExecuted, finished
    hObserved,
    \* convertLayerToBlock: the block under construction, and the layer
    \* parameters the consumer writes for it
    blkNominal, blkThickness, blkCommands, blkSegments, blkStage, blkGeoms,
    wlpArgs,
    \* mmToBits: two inputs and their results
    calX, calY, calBitsX, calBitsY,
    \* notifyPLCPrepared calls since the write_layer_parameters of the layer
    \* in hand; the last layer taken from the queue when the process was
    \* paused; loads of the parameter library (mBuildStyles) in this run
    hNotified, hPauseLayer, hStyleLoads,
    \* the consumer's command loop over one block and the device list:
    \* position, block length, index, Scanner::mListLevel, commands in the
    \* list since set_start_list
    bPc, bLen, bIdx, mListLevel, listQueued,
    \* SLMWorkerManager and its OPC worker thread
    wPc, wGui, mOPCRunning, mOPCManagerPtr, wManager, wSignal,
    mOPCInitialized, mOPCMutex, hReadyPtr, wStarts,
    \* OPC UA simulator: server object, server thread, main thread
    m_server, simPc, simMain, simIters, g_should_exit

dllVars == <<sRefCount, rtc5Open, refBefore>>
clientVars == <<mStateMutex, mUaCallMutex, mIsInitialized, mConnectionLost,
                sessionOpen, cliPc, lostEmitted>>
adapterVars == <<mOwnerThread, scInitialized, mIsScanning, scMutex, adLast>>
builderVars == <<blkNominal, blkThickness, blkCommands, blkSegments,
                 blkStage, blkGeoms, wlpArgs>>
calibVars == <<calX, calY, calBitsX, calBitsY>>
\* the units modelled on their own: the device adapter, the block builder,
\* the coordinate conversion
batchVars == <<bPc, bLen, bIdx, mListLevel, listQueued>>
workerVars == <<wPc, wGui, mOPCRunning, mOPCManagerPtr, wManager, wSignal,
                mOPCInitialized, mOPCMutex, hReadyPtr, wStarts>>
simVars == <<m_server, simPc, simMain, simIters, g_should_exit>>
moreUnitVars == <<batchVars, workerVars, simVars>>
unitVars == <<adapterVars, builderVars, calibVars, moreUnitVars>>
\* the state added to the scheduler's: device library, write result, client,
\* units
histVars == <<hNotified, hPauseLayer, hStyleLoads>>
extVars == <<dllVars, wlpResult, clientVars, unitVars, hObserved, histVars>>

vars == <<mStopRequested, mEmergencyStopFlag, mPLCPrepared, mProducerFinished,
          mLayerRequested, mProcessMode, mQueue, mMaxQueue, mTotalLayers,
          mMutex, producerPc, pLayer, consumerPc, layerNumber, cmdIdx,
          LaySurface, LaySurface_Done, PreparingLayer, workerOpc, ctrlOpc,
          mState, timerActive, mPreviousPowderSurfaceDone, gPc, pending,
          runs, errorConnected, hLayerEvents, lastExecuted, exitCause,
          exitDisabled, eStopCmd, furtherCmd, eStopPlcWrite, mutexRelock, extVars>>

flagVars == <<mStopRequested, mEmergencyStopFlag, mPLCPrepared,
              mProducerFinished, mLayerRequested>>
plcVars == <<LaySurface, LaySurface_Done, PreparingLayer>>
guiVars == <<mState, timerActive, mPreviousPowderSurfaceDone, gPc, pending,
             runs, errorConnected>>
obsVars == <<hLayerEvents, lastExecuted, exitCause, exitDisabled, eStopCmd,
             furtherCmd, eStopPlcWrite, mutexRelock, extVars>>

\* --------------------------------------------------------- pure operators

\* a capacity taken as requested, without the clamp
UnclampedMaxQueue(sz) == sz

\* setMaxQueuedLayers: the clamp applied to the requested capacity
ClampMaxQueue(sz) ==
    IF sz < MinMaxQueue THEN MinMaxQueue
    ELSE IF sz > MaxMaxQueue THEN MaxMaxQueue ELSE sz

\* producer's not-full wait predicate, queue part
QueueHasRoom(q, cap) == Len(q) < cap

\* a command loop that runs to the end of the block whatever the stop flag
CmdLoopIgnoringStop(i, n, stop) == i < n

\* consumer's command loop condition
CmdLoopGuard(i, n, stop) == i < n /\ ~stop

\* a notify on a condition variable: only a thread in the wait set is moved
Wake(pc, blocked, ready) == IF pc = blocked THEN ready ELSE pc

\* stopProcess / emergencyStop: notify_all on every condition variable
WakeAllProducer(pc) ==
    IF pc = "p_lr_blk" THEN "p_lr" ELSE IF pc = "p_nf_blk" THEN "p_nf" ELSE pc

WakeAllConsumer(pc) ==
    IF pc = "c_ne_blk" THEN "c_ne" ELSE IF pc = "c_plc_blk" THEN "c_plc_rdy" ELSE pc

ProducerJoinable == producerPc # "p_off"
ConsumerJoinable == consumerPc # "c_off"

\* layer counts a run may be started with (0: a slice file without layers)
LayerCounts == {0, MaxLayers}
\* layer counts of a test run
TestLayerCounts == {1, MaxLayers}

\* capacities a caller may request from setMaxQueuedLayers
RequestedCapacities == {0}

\* relocking a held std::mutex is undefined: the thread deadlocks, or the
\* lock call returns or throws (the callers catch) and the thread continues
RelockOutcomes == {"deadlock", "continue"}

\* the threads that call into one OPCServerManagerUA object: the consumer
\* (layer writes), the poll timer (readData) and the thread that owns the
\* object (initialize, writeEmergencyStop)
ClientThreads == {"consumer", "poller", "operator"}

Init ==
    /\ mStopRequested = FALSE
    /\ mEmergencyStopFlag = FALSE
    /\ mPLCPrepared = FALSE
    /\ mProducerFinished = FALSE
    /\ mLayerRequested = FALSE
    /\ mProcessMode = "Production"
    /\ mQueue = <<>>
    /\ mMaxQueue = DefaultMaxQueue
    /\ mTotalLayers = 0
    /\ mMutex = "free"
    /\ producerPc = "p_off"
    /\ pLayer = 0
    /\ consumerPc = "c_off"
    /\ layerNumber = 0
    /\ cmdIdx = 0
    /\ LaySurface = FALSE
    /\ LaySurface_Done = FALSE
    /\ PreparingLayer = FALSE
    /\ workerOpc = "off"
    /\ ctrlOpc = "uninit"
    /\ mState = "Idle"
    /\ timerActive = FALSE
    /\ mPreviousPowderSurfaceDone = FALSE
    /\ gPc = "idle"
    /\ pending = {}
    /\ runs = 0
    /\ errorConnected = FALSE
    /\ hLayerEvents = <<>>
    /\ lastExecuted = 0
    /\ exitCause = "none"
    /\ exitDisabled = FALSE
    /\ eStopCmd = 0
    /\ furtherCmd = FALSE
    /\ eStopPlcWrite = "none"
    /\ mutexRelock \in RelockOutcomes
    /\ sRefCount = 0
    /\ rtc5Open = FALSE
    /\ refBefore = 0
    /\ wlpResult = "none"
    /\ mStateMutex = "free"
    /\ mUaCallMutex = "free"
    /\ mIsInitialized = FALSE
    /\ mConnectionLost = FALSE
    /\ sessionOpen = FALSE
    /\ cliPc = [t \in ClientThreads |-> "idle"]
    /\ lostEmitted = 0
    /\ mOwnerThread = "none"
    /\ scInitialized = FALSE
    /\ mIsScanning = FALSE
    /\ scMutex = "free"
    /\ adLast = [op |-> "none", thread |-> "none", owner |-> "none",
                 outcome |-> "none"]
    /\ hObserved = <<>>
    /\ blkNominal = 0
    /\ blkThickness = 0
    /\ blkCommands = 0
    /\ blkSegments = <<>>
    /\ blkStage = "hatches"
    /\ blkGeoms = 0
    /\ wlpArgs = <<>>
    /\ calX = 0
    /\ calY = 0
    /\ calBitsX = 0
    /\ calBitsY = 0
    /\ hNotified = 0
    /\ hPauseLayer = 0
    /\ hStyleLoads = 0
    /\ bPc = "idle"
    /\ bLen = 0
    /\ bIdx = 0
    /\ mListLevel = 0
    /\ listQueued = 0
    /\ wPc = "off"
    /\ wGui = "idle"
    /\ mOPCRunning = FALSE
    /\ mOPCManagerPtr = "null"
    /\ wManager = "null"
    /\ wSignal = {}
    /\ mOPCInitialized = FALSE
    /\ mOPCMutex = "free"
    /\ hReadyPtr = "none"
    /\ wStarts = 0
    /\ m_server = "started"
    /\ simPc = "created"
    /\ simMain = "waiting"
    /\ simIters = 0
    /\ g_should_exit = FALSE

\* the signals of a run as its observers receive them
ProgressEvent(n, total) == [ev |-> "progress", n |-> n, of |-> total]
LayerExecutedEvent(n) == [ev |-> "layer_executed", n |-> n, of |-> 0]
FinishedEvent == [ev |-> "finished", n |-> 0, of |-> 0]

\* a signal emitted by a task towards the GUI thread (queued connection)
EmitError(p) == IF errorConnected THEN p \cup {"error"} ELSE p
EmitFinished(p) == p \cup {"finished"}

\* ------------------------------------------------------------- producer
\* producerThreadFunc / producerTestThreadFunc

\* entry: a production file without layers ends the producer at once: the
\* error is emitted, then producer_finished is set (ProducerFinish)
ProducerStart ==
    /\ producerPc = "p_start"
    /\ IF mProcessMode = "Production" /\ mTotalLayers = 0
       THEN /\ pending' = EmitError(pending)
            /\ producerPc' = "p_fail"
       ELSE /\ producerPc' = "p_top"
            /\ UNCHANGED pending
    /\ UNCHANGED <<mStopRequested, mEmergencyStopFlag, mPLCPrepared,
                   mProducerFinished, consumerPc, mLayerRequested, mProcessMode, mQueue, mMaxQueue,
                   mTotalLayers, mMutex, pLayer, layerNumber, cmdIdx,
                   plcVars, workerOpc, ctrlOpc, mState, timerActive,
                   mPreviousPowderSurfaceDone, gPc, runs, errorConnected,
                   obsVars>>

\* loop condition: another layer to produce and no stop requested
ProducerLoop ==
    /\ producerPc = "p_top"
    /\ producerPc' = IF pLayer < mTotalLayers /\ ~mStopRequested
                     THEN "p_lr" ELSE "p_fin"
    /\ UNCHANGED <<flagVars, mProcessMode, mQueue, mMaxQueue, mTotalLayers,
                   mMutex, pLayer, consumerPc, layerNumber, cmdIdx, plcVars,
                   workerOpc, ctrlOpc, guiVars, obsVars>>

\* a layer request left standing after the producer was released by it
KeepRequest(req) == req

\* the producer consumes the layer request (mLayerRequested = false)
ConsumeRequest(req) == FALSE

\* wait on mCvLayerRequested: lock, evaluate the predicate, then either go
\* on (break on stop, else consume the request) or prepare to block
ProducerWaitLayerRequested ==
    /\ producerPc = "p_lr"
    /\ mMutex = "free"
    /\ IF mStopRequested \/ mLayerRequested
       THEN /\ IF mStopRequested
               THEN /\ producerPc' = "p_fin"
                    /\ UNCHANGED mLayerRequested
               ELSE /\ producerPc' = "p_read"
                    /\ mLayerRequested' = ConsumeRequest(mLayerRequested)
            /\ UNCHANGED mMutex
       ELSE /\ producerPc' = "p_lr_pre"
            /\ mMutex' = "producer"
            /\ UNCHANGED mLayerRequested
    /\ UNCHANGED <<mStopRequested, mEmergencyStopFlag, mPLCPrepared,
                   mProducerFinished, mProcessMode, mQueue, mMaxQueue,
                   mTotalLayers, pLayer, consumerPc, layerNumber, cmdIdx,
                   plcVars, workerOpc, ctrlOpc, guiVars, obsVars>>

\* the wait releases the mutex and enters the wait set
ProducerBlock ==
    /\ producerPc \in {"p_lr_pre", "p_nf_pre"}
    /\ producerPc' = IF producerPc = "p_lr_pre" THEN "p_lr_blk" ELSE "p_nf_blk"
    /\ mMutex' = "free"
    /\ UNCHANGED <<flagVars, mProcessMode, mQueue, mMaxQueue, mTotalLayers,
                   pLayer, consumerPc, layerNumber, cmdIdx, plcVars,
                   workerOpc, ctrlOpc, guiVars, obsVars>>

\* read the next layer and convert it (production), or generate the
\* synthetic square (test); a read or conversion failure requests a stop
\* and leaves the loop ("p_fail")
ProducerReadLayer ==
    /\ producerPc = "p_read"
    /\ \E ok \in BOOLEAN :
        /\ (mProcessMode = "Test") => ok
        /\ IF ok
           THEN /\ pLayer' = pLayer + 1
                /\ producerPc' = "p_nf"
                /\ UNCHANGED <<mStopRequested, pending>>
           ELSE /\ mStopRequested' = TRUE
                /\ pending' = EmitError(pending)
                /\ producerPc' = "p_fail"
                /\ UNCHANGED pLayer
    /\ UNCHANGED <<mEmergencyStopFlag, mPLCPrepared, mProducerFinished,
                   mLayerRequested, mProcessMode, mQueue, mMaxQueue,
                   mTotalLayers, mMutex, consumerPc, layerNumber, cmdIdx,
                   plcVars, workerOpc, ctrlOpc, mState, timerActive,
                   mPreviousPowderSurfaceDone, gPc, runs, errorConnected,
                   obsVars>>

\* wait on mCvProducerNotFull, then push the block and notify the consumer
ProducerPush ==
    /\ producerPc = "p_nf"
    /\ mMutex = "free"
    /\ IF mStopRequested \/ QueueHasRoom(mQueue, mMaxQueue)
       THEN /\ IF mStopRequested
               THEN /\ producerPc' = "p_fin"
                    /\ UNCHANGED <<mQueue, consumerPc>>
               ELSE /\ mQueue' = Append(mQueue, pLayer)
                    /\ consumerPc' = Wake(consumerPc, "c_ne_blk", "c_ne")
                    /\ producerPc' = "p_emit"
            /\ UNCHANGED mMutex
       ELSE /\ producerPc' = "p_nf_pre"
            /\ mMutex' = "producer"
            /\ UNCHANGED <<mQueue, consumerPc>>
    /\ UNCHANGED <<flagVars, mProcessMode, mMaxQueue, mTotalLayers, pLayer,
                   layerNumber, cmdIdx, plcVars, workerOpc, ctrlOpc, guiVars,
                   obsVars>>

\* after the push and the notify: emit progress(produced, total)
ProducerEmitProgress ==
    /\ producerPc = "p_emit"
    /\ hObserved' = Append(hObserved, ProgressEvent(pLayer, mTotalLayers))
    /\ producerPc' = "p_top"
    /\ UNCHANGED <<flagVars, mProcessMode, mQueue, mMaxQueue, mTotalLayers,
                   mMutex, pLayer, consumerPc, layerNumber, cmdIdx, plcVars,
                   workerOpc, ctrlOpc, guiVars, hLayerEvents, lastExecuted,
                   exitCause, exitDisabled, eStopCmd, furtherCmd,
                   eStopPlcWrite, mutexRelock, dllVars, wlpResult,
                   clientVars, unitVars, histVars>>

\* after the loop: mProducerFinished = true under the mutex, final notify
ProducerFinish ==
    /\ producerPc \in {"p_fin", "p_fail"}
    /\ mMutex = "free"
    /\ mProducerFinished' = TRUE
    /\ consumerPc' = Wake(consumerPc, "c_ne_blk", "c_ne")
    /\ producerPc' = "p_done"
    /\ UNCHANGED <<mStopRequested, mEmergencyStopFlag, mPLCPrepared,
                   mLayerRequested, mProcessMode, mQueue, mMaxQueue,
                   mTotalLayers, mMutex, pLayer, layerNumber, cmdIdx,
                   plcVars, workerOpc, ctrlOpc, guiVars, obsVars>>

ProducerStep ==
    \/ ProducerStart \/ ProducerLoop \/ ProducerWaitLayerRequested
    \/ ProducerBlock \/ ProducerReadLayer \/ ProducerPush
    \/ ProducerEmitProgress \/ ProducerFinish

\* ------------------------------------------------------------- consumer
\* consumerThreadFunc

\* the consumer leaves its loop: remember why, go to the exit phase
ConsumerBreak(cause) ==
    /\ consumerPc' = "c_exit"
    /\ exitCause' = cause

\* RTC5DLLManager::acquireDLL: the reference count after the call
AcquireDLL(count) == count + 1

\* RTC5DLLManager::releaseDLL: the reference count after the call
ReleaseDLL(count) == IF count - 1 < 0 THEN count ELSE count - 1

\* phases 0-3: load the parameter library, acquire the DLL (RTC5open when
\* the count is 0), initialise the scanner (a second acquireDLL, released
\* again when the initialisation fails).  Scanner::initialize logs while
\* holding its own mutex, so a build whose relock deadlocks hangs there,
\* before the scanner's own acquire.  Any failure requests a stop and
\* returns without the exit phase and without finished.  "config": the
\* parameter library does not load; "open": RTC5open fails; "device": the
\* scanner does not initialise.
ConsumerInit ==
    /\ consumerPc = "c_init"
    /\ refBefore' = sRefCount
    /\ hStyleLoads' = hStyleLoads + 1
    /\ \E outcome \in {"ok", "config", "open", "device"} :
        /\ outcome = "open" => sRefCount = 0
        /\ IF outcome \in {"config", "open"}
           THEN UNCHANGED <<sRefCount, rtc5Open>>
           ELSE /\ rtc5Open' = IF sRefCount = 0 THEN TRUE ELSE rtc5Open
                /\ sRefCount' =
                     IF mutexRelock = "deadlock" THEN AcquireDLL(sRefCount)
                     ELSE IF outcome = "device"
                     THEN ReleaseDLL(AcquireDLL(AcquireDLL(sRefCount)))
                     ELSE AcquireDLL(AcquireDLL(sRefCount))
        /\ IF outcome \in {"config", "open"}
              \/ (outcome = "device" /\ mutexRelock # "deadlock")
           THEN /\ mStopRequested' = TRUE
                /\ pending' = EmitError(pending)
                /\ consumerPc' = "c_done"
                /\ exitCause' = "init"
           ELSE /\ consumerPc' = IF mutexRelock = "deadlock"
                                 THEN "c_hung" ELSE "c_prime"
                /\ UNCHANGED <<mStopRequested, pending, exitCause>>
    /\ UNCHANGED <<mEmergencyStopFlag, mPLCPrepared, mProducerFinished,
                   mLayerRequested, mProcessMode, mQueue, mMaxQueue,
                   mTotalLayers, mMutex, producerPc, pLayer, layerNumber,
                   cmdIdx, plcVars, workerOpc, ctrlOpc, mState, timerActive,
                   mPreviousPowderSurfaceDone, gPc, runs, errorConnected,
                   hLayerEvents, lastExecuted, exitDisabled, eStopCmd,
                   furtherCmd, eStopPlcWrite, mutexRelock, wlpResult,
                   clientVars, unitVars, hObserved, hNotified, hPauseLayer>>

\* request a layer: mLayerRequested = true under the mutex, then notify.
\* Used before the loop (first layer) and at the end of each layer, where
\* the flag is only set while the producer has not finished.
ConsumerRequestLayer ==
    /\ consumerPc \in {"c_prime", "c_req"}
    /\ mMutex = "free"
    /\ mLayerRequested' = IF consumerPc = "c_req" /\ mProducerFinished
                          THEN mLayerRequested ELSE TRUE
    /\ producerPc' = Wake(producerPc, "p_lr_blk", "p_lr")
    /\ consumerPc' = "c_top"
    /\ UNCHANGED <<mStopRequested, mEmergencyStopFlag, mPLCPrepared,
                   mProducerFinished, mProcessMode, mQueue, mMaxQueue,
                   mTotalLayers, mMutex, pLayer, layerNumber, cmdIdx,
                   plcVars, workerOpc, ctrlOpc, guiVars, obsVars>>

\* while (!mStopRequested)
ConsumerLoop ==
    /\ consumerPc = "c_top"
    /\ IF mStopRequested
       THEN ConsumerBreak("stop")
       ELSE consumerPc' = "c_ne" /\ UNCHANGED exitCause
    /\ UNCHANGED <<flagVars, mProcessMode, mQueue, mMaxQueue, mTotalLayers,
                   mMutex, producerPc, pLayer, layerNumber, cmdIdx, plcVars,
                   workerOpc, ctrlOpc, guiVars, hLayerEvents, lastExecuted,
                   exitDisabled, eStopCmd, furtherCmd, eStopPlcWrite,
                   mutexRelock, extVars>>

\* wait on mCvConsumerNotEmpty, then break (stop, or queue drained and the
\* producer finished) or pop the front block and notify the producer
ConsumerWaitNotEmpty ==
    /\ consumerPc = "c_ne"
    /\ mMutex = "free"
    /\ IF mStopRequested \/ mQueue # <<>> \/ mProducerFinished
       THEN /\ IF mStopRequested
               THEN /\ ConsumerBreak("stop")
                    /\ UNCHANGED <<mQueue, producerPc, layerNumber,
                                   hLayerEvents>>
               ELSE IF mQueue = <<>>
               THEN /\ ConsumerBreak("eof")
                    /\ UNCHANGED <<mQueue, producerPc, layerNumber,
                                   hLayerEvents>>
               ELSE /\ mQueue' = Tail(mQueue)
                    /\ layerNumber' = Head(mQueue)
                    /\ producerPc' = Wake(producerPc, "p_nf_blk", "p_nf")
                    /\ hLayerEvents' = <<>>
                    /\ consumerPc' = IF mProcessMode = "Production"
                                     THEN "c_wlp" ELSE "c_prep"
                    /\ UNCHANGED exitCause
            /\ UNCHANGED mMutex
       ELSE /\ consumerPc' = "c_ne_pre"
            /\ mMutex' = "consumer"
            /\ UNCHANGED <<mQueue, producerPc, layerNumber, hLayerEvents,
                           exitCause>>
    /\ UNCHANGED <<flagVars, mProcessMode, mMaxQueue, mTotalLayers, pLayer,
                   cmdIdx, plcVars, workerOpc, ctrlOpc, guiVars,
                   lastExecuted, exitDisabled, eStopCmd, furtherCmd,
                   eStopPlcWrite, mutexRelock, extVars>>

\* the wait releases the mutex and enters the wait set
ConsumerBlock ==
    /\ consumerPc \in {"c_ne_pre", "c_plc_pre"}
    /\ consumerPc' = IF consumerPc = "c_ne_pre" THEN "c_ne_blk" ELSE "c_plc_blk"
    /\ mMutex' = "free"
    /\ UNCHANGED <<flagVars, mProcessMode, mQueue, mMaxQueue, mTotalLayers,
                   producerPc, pLayer, layerNumber, cmdIdx, plcVars,
                   workerOpc, ctrlOpc, guiVars, obsVars>>

\* production: take the mutex and, when the OPC manager is initialised,
\* call write_layer_parameters(1, delta, delta); the call sets LaySurface
\* on the PLC unless the session turns out to be closed
ConsumerWriteLayerParameters ==
    /\ consumerPc = "c_wlp"
    /\ mMutex = "free"
    /\ mMutex' = "consumer"
    /\ hNotified' = 0
    /\ consumerPc' = "c_plc"
    /\ IF workerOpc = "ready"
       THEN /\ hLayerEvents' = Append(hLayerEvents, "wlp")
            /\ \E ok \in BOOLEAN :
                IF ok THEN /\ LaySurface' = TRUE
                           /\ wlpResult' = "ok"
                           /\ UNCHANGED workerOpc
                      ELSE /\ workerOpc' = "lost"
                           /\ wlpResult' = "failed"
                           /\ UNCHANGED LaySurface
       ELSE /\ wlpResult' = "skipped"
            /\ UNCHANGED <<hLayerEvents, LaySurface, workerOpc>>
    /\ UNCHANGED <<flagVars, mProcessMode, mQueue, mMaxQueue, mTotalLayers,
                   producerPc, pLayer, layerNumber, cmdIdx, LaySurface_Done,
                   PreparingLayer, ctrlOpc, guiVars, lastExecuted, exitCause,
                   exitDisabled, eStopCmd, furtherCmd, eStopPlcWrite,
                   mutexRelock, dllVars, clientVars, unitVars, hObserved,
                   hPauseLayer, hStyleLoads>>

\* wait on mCvPLCNotified (mutex held since before the write); released by
\* a stop request (break) or by mPLCPrepared, which is then cleared
ConsumerWaitPLC ==
    /\ \/ consumerPc = "c_plc" /\ mMutex = "consumer"
       \/ consumerPc = "c_plc_rdy" /\ mMutex = "free"
    /\ IF mStopRequested \/ mPLCPrepared
       THEN /\ IF mStopRequested
               THEN ConsumerBreak("stop") /\ UNCHANGED mPLCPrepared
               ELSE /\ mPLCPrepared' = FALSE
                    /\ consumerPc' = "c_prep"
                    /\ UNCHANGED exitCause
            /\ mMutex' = "free"
       ELSE /\ consumerPc' = "c_plc_pre"
            /\ mMutex' = "consumer"
            /\ UNCHANGED <<mPLCPrepared, exitCause>>
    /\ UNCHANGED <<mStopRequested, mEmergencyStopFlag, mProducerFinished,
                   mLayerRequested, mProcessMode, mQueue, mMaxQueue,
                   mTotalLayers, producerPc, pLayer, layerNumber, cmdIdx,
                   plcVars, workerOpc, ctrlOpc, guiVars, hLayerEvents,
                   lastExecuted, exitDisabled, eStopCmd, furtherCmd,
                   eStopPlcWrite, mutexRelock, extVars>>

\* emergency check before execution, then prepareListForLayer
\* (set_start_list); a device error requests a stop and breaks
ConsumerPrepareList ==
    /\ consumerPc = "c_prep"
    /\ IF mEmergencyStopFlag
       THEN /\ ConsumerBreak("stop")
            /\ UNCHANGED <<mStopRequested, pending, cmdIdx>>
       ELSE \E ok \in BOOLEAN :
            IF ok
            THEN /\ consumerPc' = "c_cmd"
                 /\ cmdIdx' = 0
                 /\ UNCHANGED <<mStopRequested, pending, exitCause>>
            ELSE /\ mStopRequested' = TRUE
                 /\ pending' = EmitError(pending)
                 /\ ConsumerBreak("prepfail")
                 /\ UNCHANGED cmdIdx
    /\ UNCHANGED <<mEmergencyStopFlag, mPLCPrepared, mProducerFinished,
                   mLayerRequested, mProcessMode, mQueue, mMaxQueue,
                   mTotalLayers, mMutex, producerPc, pLayer, layerNumber,
                   plcVars, workerOpc, ctrlOpc, mState, timerActive,
                   mPreviousPowderSurfaceDone, gPc, runs, errorConnected,
                   hLayerEvents, lastExecuted, exitDisabled, eStopCmd,
                   furtherCmd, eStopPlcWrite, mutexRelock, extVars>>

\* for (i = 0; i < commands.size() && !mStopRequested; ++i), and the check
\* after the loop: a stop request breaks, otherwise the list is executed
ConsumerCommandLoop ==
    /\ consumerPc = "c_cmd"
    /\ IF CmdLoopGuard(cmdIdx, MaxCmds, mStopRequested)
       THEN consumerPc' = "c_body" /\ UNCHANGED <<exitCause, cmdIdx>>
       ELSE IF mStopRequested
       THEN ConsumerBreak("stop") /\ cmdIdx' = 0
       ELSE consumerPc' = "c_gap" /\ cmdIdx' = 0 /\ UNCHANGED exitCause
    /\ UNCHANGED <<flagVars, mProcessMode, mQueue, mMaxQueue, mTotalLayers,
                   mMutex, producerPc, pLayer, layerNumber, plcVars,
                   workerOpc, ctrlOpc, guiVars, hLayerEvents, lastExecuted,
                   exitDisabled, eStopCmd, furtherCmd, eStopPlcWrite,
                   mutexRelock, extVars>>

\* a command dispatched while an emergency stop is in force is a further
\* command unless it is the one that was in progress when the stop came
IsFurtherCommand(i) ==
    mEmergencyStopFlag /\ mStopRequested /\ i + 1 # eStopCmd

\* loop body: apply the segment parameters when they change and dispatch
\* the command (jump, mark or delay); a rejection is an execution error,
\* which requests a stop and breaks
ConsumerDispatch ==
    /\ consumerPc = "c_body"
    /\ furtherCmd' = (furtherCmd \/ IsFurtherCommand(cmdIdx))
    /\ \E ok \in BOOLEAN :
        IF ok
        THEN /\ cmdIdx' = cmdIdx + 1
             /\ consumerPc' = "c_cmd"
             /\ UNCHANGED <<mStopRequested, pending, exitCause>>
        ELSE /\ mStopRequested' = TRUE
             /\ pending' = EmitError(pending)
             /\ ConsumerBreak("reject")
             /\ cmdIdx' = 0
    /\ UNCHANGED <<mEmergencyStopFlag, mPLCPrepared, mProducerFinished,
                   mLayerRequested, mProcessMode, mQueue, mMaxQueue,
                   mTotalLayers, mMutex, producerPc, pLayer, layerNumber,
                   plcVars, workerOpc, ctrlOpc, mState, timerActive,
                   mPreviousPowderSurfaceDone, gPc, runs, errorConnected,
                   hLayerEvents, lastExecuted, exitDisabled, eStopCmd,
                   eStopPlcWrite, mutexRelock, extVars>>

\* after the 2 s gap: execute_list; a failure requests a stop and breaks
ConsumerExecuteList ==
    /\ consumerPc = "c_gap"
    /\ hLayerEvents' = Append(hLayerEvents, "exec")
    /\ \E ok \in BOOLEAN :
        IF ok
        THEN /\ consumerPc' = "c_wdone"
             /\ UNCHANGED <<mStopRequested, pending, exitCause>>
        ELSE /\ mStopRequested' = TRUE
             /\ pending' = EmitError(pending)
             /\ ConsumerBreak("execfail")
    /\ UNCHANGED <<mEmergencyStopFlag, mPLCPrepared, mProducerFinished,
                   mLayerRequested, mProcessMode, mQueue, mMaxQueue,
                   mTotalLayers, mMutex, producerPc, pLayer, layerNumber,
                   cmdIdx, plcVars, workerOpc, ctrlOpc, mState, timerActive,
                   mPreviousPowderSurfaceDone, gPc, runs, errorConnected,
                   lastExecuted, exitDisabled, eStopCmd, furtherCmd,
                   eStopPlcWrite, mutexRelock, extVars>>

\* waitForListCompletion: a timeout requests a stop and breaks
ConsumerWaitCompletion ==
    /\ consumerPc = "c_wdone"
    /\ \E ok \in BOOLEAN :
        IF ok
        THEN /\ consumerPc' = "c_end"
             /\ UNCHANGED <<mStopRequested, pending, exitCause>>
        ELSE /\ mStopRequested' = TRUE
             /\ pending' = EmitError(pending)
             /\ ConsumerBreak("timeout")
    /\ UNCHANGED <<mEmergencyStopFlag, mPLCPrepared, mProducerFinished,
                   mLayerRequested, mProcessMode, mQueue, mMaxQueue,
                   mTotalLayers, mMutex, producerPc, pLayer, layerNumber,
                   cmdIdx, plcVars, workerOpc, ctrlOpc, mState, timerActive,
                   mPreviousPowderSurfaceDone, gPc, runs, errorConnected,
                   hLayerEvents, lastExecuted, exitDisabled, eStopCmd,
                   furtherCmd, eStopPlcWrite, mutexRelock, extVars>>

\* a finished layer for which no layerExecuted signal is emitted
NoLayerExecutedSignal(last, n) == last

\* the value carried by the layerExecuted signal of the finished layer
LayerExecutedSignal(last, n) == n

\* layer complete: disable the laser, emit layerExecuted and
\* progress(consumed, total), and in production
\* call write_layer_execution_complete (LaySurface = FALSE) when the OPC
\* manager is initialised
ConsumerLayerComplete ==
    /\ consumerPc = "c_end"
    /\ lastExecuted' = LayerExecutedSignal(lastExecuted, layerNumber)
    /\ hObserved' = hObserved \o <<LayerExecutedEvent(layerNumber),
                                   ProgressEvent(layerNumber, mTotalLayers)>>
    /\ consumerPc' = "c_req"
    /\ IF mProcessMode = "Production" /\ workerOpc = "ready"
       THEN /\ hLayerEvents' = Append(hLayerEvents, "complete")
            /\ \E ok \in BOOLEAN :
                IF ok THEN LaySurface' = FALSE /\ UNCHANGED workerOpc
                      ELSE workerOpc' = "lost" /\ UNCHANGED LaySurface
       ELSE UNCHANGED <<hLayerEvents, LaySurface, workerOpc>>
    /\ UNCHANGED <<flagVars, mProcessMode, mQueue, mMaxQueue, mTotalLayers,
                   mMutex, producerPc, pLayer, layerNumber, cmdIdx,
                   LaySurface_Done, PreparingLayer, ctrlOpc, guiVars,
                   exitCause, exitDisabled, eStopCmd, furtherCmd,
                   eStopPlcWrite, mutexRelock, dllVars, wlpResult,
                   clientVars, unitVars, histVars>>

\* exit phase: disable_laser only when the emergency flag is set
ExitDisablesLaser(emergency) == emergency

\* phase 5: conditional disable_laser, Scanner::shutdown (which does not
\* disable the laser: stopScanning returns early, no scan is flagged as
\* running), then finished.  Scanner::shutdown -> releaseResources calls
\* free_rtc5_dll and RTC5close itself and then releaseDLL, which closes
\* the library (again) only when the count reaches 0.
ConsumerExit ==
    /\ consumerPc = "c_exit"
    /\ exitDisabled' = ExitDisablesLaser(mEmergencyStopFlag)
    /\ rtc5Open' = FALSE
    /\ sRefCount' = ReleaseDLL(sRefCount)
    /\ pending' = EmitFinished(pending)
    /\ hObserved' = Append(hObserved, FinishedEvent)
    /\ consumerPc' = "c_done"
    /\ UNCHANGED <<flagVars, mProcessMode, mQueue, mMaxQueue, mTotalLayers,
                   mMutex, producerPc, pLayer, layerNumber, cmdIdx, plcVars,
                   workerOpc, ctrlOpc, mState, timerActive,
                   mPreviousPowderSurfaceDone, gPc, runs, errorConnected,
                   hLayerEvents, lastExecuted, exitCause, eStopCmd,
                   furtherCmd, eStopPlcWrite, mutexRelock, refBefore,
                   wlpResult, clientVars, unitVars, histVars>>

ConsumerStep ==
    \/ ConsumerInit \/ ConsumerRequestLayer \/ ConsumerLoop
    \/ ConsumerWaitNotEmpty \/ ConsumerBlock \/ ConsumerWriteLayerParameters
    \/ ConsumerWaitPLC \/ ConsumerPrepareList \/ ConsumerCommandLoop
    \/ ConsumerDispatch \/ ConsumerExecuteList \/ ConsumerWaitCompletion
    \/ ConsumerLayerComplete \/ ConsumerExit

\* ------------------------------------------------------------------ PLC
\* The handshake rule of the PLC program (OPC UA simulator, applyBehavior)

\* LaySurface seen while not preparing: start the recoater cycle
PlcBeginPrepare ==
    /\ LaySurface /\ ~PreparingLayer
    /\ PreparingLayer' = TRUE
    /\ LaySurface_Done' = FALSE
    /\ UNCHANGED <<flagVars, mProcessMode, mQueue, mMaxQueue, mTotalLayers,
                   mMutex, producerPc, pLayer, consumerPc, layerNumber,
                   cmdIdx, LaySurface, workerOpc, ctrlOpc, guiVars, obsVars>>

\* the rising edge of LaySurface_Done is recorded once per layer, and only
\* when it follows the write_layer_parameters call of that layer
RecordEdge(ev) ==
    IF mProcessMode = "Production" /\ ev # <<>> /\ ev[Len(ev)] = "wlp"
    THEN Append(ev, "edge") ELSE ev

\* the cycle ends: LaySurface_Done rises
PlcFinishPrepare ==
    /\ PreparingLayer /\ ~LaySurface_Done
    /\ LaySurface_Done' = TRUE
    /\ hLayerEvents' = RecordEdge(hLayerEvents)
    /\ UNCHANGED <<flagVars, mProcessMode, mQueue, mMaxQueue, mTotalLayers,
                   mMutex, producerPc, pLayer, consumerPc, layerNumber,
                   cmdIdx, LaySurface, PreparingLayer, workerOpc, ctrlOpc,
                   guiVars, lastExecuted, exitCause, exitDisabled, eStopCmd,
                   furtherCmd, eStopPlcWrite, mutexRelock, extVars>>

\* a completion tag left standing when the cycle is reset
StaleDone(done) == done

\* the completion tag after the reset of the cycle
ClearDone(done) == FALSE

\* LaySurface withdrawn after a finished cycle: both tags are reset
PlcReset ==
    /\ ~LaySurface /\ PreparingLayer /\ LaySurface_Done
    /\ PreparingLayer' = FALSE
    /\ LaySurface_Done' = ClearDone(LaySurface_Done)
    /\ UNCHANGED <<flagVars, mProcessMode, mQueue, mMaxQueue, mTotalLayers,
                   mMutex, producerPc, pLayer, consumerPc, layerNumber,
                   cmdIdx, LaySurface, workerOpc, ctrlOpc, guiVars, obsVars>>

PlcStep == PlcBeginPrepare \/ PlcFinishPrepare \/ PlcReset

\* ------------------------------------------------- OPC worker (own thread)
\* SLMWorkerManager::opcThreadFunc / OPCWorker::initialize, and the queued
\* initialized -> systemReady / systemError signals
OpcWorkerInit ==
    /\ workerOpc = "starting"
    /\ \E ok \in BOOLEAN :
        IF ok THEN workerOpc' = "ready" /\ pending' = pending \cup {"ready"}
              ELSE workerOpc' = "off" /\ pending' = pending \cup {"error"}
    /\ UNCHANGED <<flagVars, mProcessMode, mQueue, mMaxQueue, mTotalLayers,
                   mMutex, producerPc, pLayer, consumerPc, layerNumber,
                   cmdIdx, plcVars, ctrlOpc, mState, timerActive,
                   mPreviousPowderSurfaceDone, gPc, runs, errorConnected,
                   obsVars>>

\* ----------------------------------------- ScanStreamingManager, GUI side

\* a layer request of the previous run left standing
StaleRequest(req) == req

\* startProcess / startTestProcess: mLayerRequested = false
ResetRequest(req) == FALSE

\* startProcess / startTestProcess, from the reset of the state up to the
\* creation of the consumer task
ResetAndStartConsumer(mode, n) ==
    /\ mStopRequested' = FALSE
    /\ mEmergencyStopFlag' = FALSE
    /\ mPLCPrepared' = FALSE
    /\ mProducerFinished' = FALSE
    /\ mLayerRequested' = ResetRequest(mLayerRequested)
    /\ mProcessMode' = mode
    /\ mTotalLayers' = n
    /\ mQueue' = <<>>
    /\ pLayer' = 0
    /\ layerNumber' = 0
    /\ cmdIdx' = 0
    /\ consumerPc' = "c_init"
    /\ hLayerEvents' = <<>>
    /\ lastExecuted' = 0
    /\ exitCause' = "none"
    /\ exitDisabled' = FALSE
    /\ eStopCmd' = 0
    /\ furtherCmd' = FALSE
    /\ eStopPlcWrite' = "none"
    /\ wlpResult' = "none"
    /\ hObserved' = <<>>
    /\ hNotified' = 0
    /\ hPauseLayer' = 0
    /\ hStyleLoads' = 0
    /\ runs' = runs + 1
    /\ gPc' = "start_mid"

\* stopProcess: mStopRequested = true and notify_all on every condition
\* variable, without taking the mutex; the joins follow
RequestStop ==
    /\ mStopRequested' = TRUE
    /\ producerPc' = WakeAllProducer(producerPc)
    /\ consumerPc' = WakeAllConsumer(consumerPc)

\* the command in progress when an emergency stop arrives (0: none)
CommandInProgress == IF consumerPc = "c_body" THEN cmdIdx + 1 ELSE 0

\* emergencyStop: both flags, then the same notifications
RequestEmergencyStop ==
    /\ mEmergencyStopFlag' = TRUE
    /\ eStopCmd' = CommandInProgress
    /\ RequestStop

\* once the tasks are joined the run is over: its locals are dead and what
\* was observed of it is dropped
ForgetRun ==
    /\ pLayer' = 0
    /\ layerNumber' = 0
    /\ cmdIdx' = 0
    /\ hLayerEvents' = <<>>
    /\ lastExecuted' = 0
    /\ exitCause' = "none"
    /\ exitDisabled' = FALSE
    /\ eStopCmd' = 0
    /\ furtherCmd' = FALSE
    /\ wlpResult' = "none"
    /\ hObserved' = <<>>
    /\ hNotified' = 0
    /\ hPauseLayer' = 0
    /\ hStyleLoads' = 0

\* a joined task handle is no longer joinable
JoinTask(pc, off) == off

\* join of the producer handle (test producer or file producer)
GuiJoinProducer ==
    /\ gPc \in {"stop_join", "estop_join"}
    /\ producerPc = "p_done"
    /\ producerPc' = JoinTask(producerPc, "p_off")
    /\ UNCHANGED <<flagVars, mProcessMode, mQueue, mMaxQueue, mTotalLayers,
                   mMutex, pLayer, consumerPc, layerNumber, cmdIdx, plcVars,
                   workerOpc, ctrlOpc, guiVars, obsVars>>

\* join of the consumer handle; stopProcess / emergencyStop then return
GuiJoinConsumer ==
    /\ gPc \in {"stop_join", "estop_join"}
    /\ producerPc = "p_off"
    /\ consumerPc \in {"c_done", "c_off"}
    /\ consumerPc' = JoinTask(consumerPc, "c_off")
    /\ gPc' = IF gPc = "stop_join" THEN "stop_ret" ELSE "estop_ret"
    /\ ForgetRun
    /\ UNCHANGED <<flagVars, mProcessMode, mQueue, mMaxQueue, mTotalLayers,
                   mMutex, producerPc, plcVars, workerOpc, ctrlOpc, mState,
                   timerActive, mPreviousPowderSurfaceDone, pending, runs,
                   errorConnected, eStopPlcWrite, mutexRelock, dllVars,
                   clientVars, unitVars>>

\* ------------------------------------------ ProcessController (GUI thread)
\* A handler runs when the GUI thread is in its event loop; a user command
\* is handled after the queued signals posted before it.

\* startProductionSLMProcess: refused only while Running; connects the
\* scheduler's signals, enters Starting and starts the OPC worker (a no-op
\* when the worker is already up)
GuiStartProduction ==
    /\ gPc = "idle" /\ pending = {}
    /\ mState # "Running"
    /\ runs < MaxRuns
    /\ errorConnected' = TRUE
    /\ mState' = "Starting"
    /\ workerOpc' = IF workerOpc = "off" THEN "starting" ELSE workerOpc
    /\ UNCHANGED <<flagVars, mProcessMode, mQueue, mMaxQueue, mTotalLayers,
                   mMutex, producerPc, pLayer, consumerPc, layerNumber,
                   cmdIdx, plcVars, ctrlOpc, timerActive,
                   mPreviousPowderSurfaceDone, gPc, pending, runs, obsVars>>

\* onScanProcessError, also called directly by onSystemReady on a failed
\* start: Idle, then ScanStreamingManager::stopProcess
EnterErrorStop ==
    /\ mState' = "Idle"
    /\ RequestStop
    /\ gPc' = "stop_join"

\* onSystemReady: ignored unless Starting; hands the worker's OPC manager to
\* the scheduler and calls startProcess, which refuses while a task handle
\* is joinable or the OPC manager is not initialised
GuiOnSystemReady ==
    /\ gPc = "idle"
    /\ "ready" \in pending
    /\ IF mState # "Starting"
       THEN /\ pending' = pending \ {"ready"}
            /\ UNCHANGED <<flagVars, mProcessMode, mQueue, mTotalLayers,
                           producerPc, pLayer, consumerPc, layerNumber,
                           cmdIdx, mState, gPc, runs, obsVars>>
       ELSE IF ProducerJoinable \/ ConsumerJoinable \/ workerOpc # "ready"
       THEN /\ pending' = EmitError(pending \ {"ready"})
            /\ EnterErrorStop
            /\ UNCHANGED <<mEmergencyStopFlag, mPLCPrepared,
                           mProducerFinished, mLayerRequested, mProcessMode,
                           mQueue, mTotalLayers, pLayer, layerNumber, cmdIdx,
                           runs, obsVars>>
       ELSE /\ mMutex = "free"
            /\ pending' = pending \ {"ready"}
            /\ \E n \in LayerCounts : ResetAndStartConsumer("Production", n)
            /\ UNCHANGED <<producerPc, mState, mutexRelock, dllVars, clientVars, unitVars>>
    /\ UNCHANGED <<mMaxQueue, mMutex, plcVars, workerOpc, ctrlOpc,
                   timerActive, mPreviousPowderSurfaceDone, errorConnected>>

\* startTestSLMProcess / startTestProcess: refused while Running or while a
\* task handle is joinable
GuiStartTest ==
    /\ gPc = "idle" /\ pending = {}
    /\ mState # "Running"
    /\ runs < MaxRuns
    /\ IF ProducerJoinable \/ ConsumerJoinable
       THEN /\ pending' = EmitError(pending)
            /\ UNCHANGED <<flagVars, mProcessMode, mQueue, mTotalLayers,
                           pLayer, consumerPc, layerNumber, cmdIdx, gPc,
                           runs, obsVars>>
       ELSE /\ mMutex = "free"
            /\ \E n \in TestLayerCounts : ResetAndStartConsumer("Test", n)
            /\ UNCHANGED <<pending, mutexRelock, dllVars, clientVars, unitVars>>
    /\ UNCHANGED <<mMaxQueue, mMutex, producerPc, plcVars, workerOpc,
                   ctrlOpc, mState, timerActive, mPreviousPowderSurfaceDone,
                   errorConnected>>

\* second half of startProcess / startTestProcess, after the sleep: create
\* the producer task; the caller enters Running (and, in production, starts
\* the polling timer)
GuiStartProducer ==
    /\ gPc = "start_mid"
    /\ producerPc' = "p_start"
    /\ mState' = "Running"
    /\ timerActive' = (timerActive \/ mProcessMode = "Production")
    /\ gPc' = "idle"
    /\ UNCHANGED <<flagVars, mProcessMode, mQueue, mMaxQueue, mTotalLayers,
                   mMutex, pLayer, consumerPc, layerNumber, cmdIdx, plcVars,
                   workerOpc, ctrlOpc, mPreviousPowderSurfaceDone, pending,
                   runs, errorConnected, obsVars>>

\* ProcessController::stopProcess: nothing when Idle; else Idle, timer
\* stopped, ScanStreamingManager::stopProcess
GuiStop ==
    /\ gPc = "idle" /\ pending = {}
    /\ mState # "Idle"
    /\ mState' = "Idle"
    /\ timerActive' = FALSE
    /\ RequestStop
    /\ gPc' = "stop_join"
    /\ UNCHANGED <<mEmergencyStopFlag, mPLCPrepared, mProducerFinished,
                   mLayerRequested, mProcessMode, mQueue, mMaxQueue,
                   mTotalLayers, mMutex, pLayer, layerNumber, cmdIdx,
                   plcVars, workerOpc, ctrlOpc, mPreviousPowderSurfaceDone,
                   pending, runs, errorConnected, obsVars>>

\* after stopProcess returned: shutdownOPCWorker
GuiStopFinish ==
    /\ gPc = "stop_ret"
    /\ workerOpc' = "off"
    /\ gPc' = "idle"
    /\ UNCHANGED <<flagVars, mProcessMode, mQueue, mMaxQueue, mTotalLayers,
                   mMutex, producerPc, pLayer, consumerPc, layerNumber,
                   cmdIdx, plcVars, ctrlOpc, mState, timerActive,
                   mPreviousPowderSurfaceDone, pending, runs, errorConnected,
                   obsVars>>

\* queued error signal (scheduler or worker): onScanProcessError
GuiOnScanProcessError ==
    /\ gPc = "idle"
    /\ "error" \in pending
    /\ pending' = pending \ {"error"}
    /\ EnterErrorStop
    /\ UNCHANGED <<mEmergencyStopFlag, mPLCPrepared, mProducerFinished,
                   mLayerRequested, mProcessMode, mQueue, mMaxQueue,
                   mTotalLayers, mMutex, pLayer, layerNumber, cmdIdx,
                   plcVars, workerOpc, ctrlOpc, timerActive,
                   mPreviousPowderSurfaceDone, runs, errorConnected, obsVars>>

\* queued finished signal: onScanProcessFinished, ignored unless Running;
\* Idle and shutdownOPCWorker, the scheduler's tasks are not joined
GuiOnScanProcessFinished ==
    /\ gPc = "idle"
    /\ "finished" \in pending
    /\ pending' = pending \ {"finished"}
    /\ IF mState = "Running"
       THEN mState' = "Idle" /\ workerOpc' = "off"
       ELSE UNCHANGED <<mState, workerOpc>>
    /\ UNCHANGED <<flagVars, mProcessMode, mQueue, mMaxQueue, mTotalLayers,
                   mMutex, producerPc, pLayer, consumerPc, layerNumber,
                   cmdIdx, plcVars, ctrlOpc, timerActive,
                   mPreviousPowderSurfaceDone, gPc, runs, errorConnected,
                   obsVars>>

\* ProcessController::emergencyStop: EmergencyStopped, timer stopped, the
\* StartSurfaces = FALSE write only when the GUI's OPC controller reports
\* initialised (OPCServerManagerUA::writeEmergencyStop then calls
\* writeBoolNode with mStateMutex held, a relock), then the scheduler's
\* emergencyStop
GuiEmergencyStop ==
    /\ gPc = "idle" /\ pending = {}
    /\ mState' = "EmergencyStopped"
    /\ timerActive' = FALSE
    /\ eStopPlcWrite' = IF ctrlOpc = "ready" THEN "attempted" ELSE "skipped"
    /\ IF ctrlOpc = "ready" /\ mutexRelock = "deadlock"
       THEN /\ gPc' = "g_hung"
            /\ UNCHANGED <<mStopRequested, mEmergencyStopFlag, producerPc,
                           consumerPc, eStopCmd>>
       ELSE /\ RequestEmergencyStop
            /\ gPc' = "estop_join"
    /\ UNCHANGED <<mPLCPrepared, mProducerFinished, mLayerRequested,
                   mProcessMode, mQueue, mMaxQueue, mTotalLayers, mMutex,
                   pLayer, layerNumber, cmdIdx, plcVars, workerOpc, ctrlOpc,
                   mPreviousPowderSurfaceDone, pending, runs, errorConnected,
                   hLayerEvents, lastExecuted, exitCause, exitDisabled,
                   furtherCmd, mutexRelock, extVars>>

\* after the scheduler's emergencyStop returned: the worker manager's
\* emergencyStop ends the OPC worker
GuiEmergencyStopFinish ==
    /\ gPc = "estop_ret"
    /\ workerOpc' = "off"
    /\ gPc' = "idle"
    /\ eStopPlcWrite' = "none"
    /\ UNCHANGED <<flagVars, mProcessMode, mQueue, mMaxQueue, mTotalLayers,
                   mMutex, producerPc, pLayer, consumerPc, layerNumber,
                   cmdIdx, plcVars, ctrlOpc, mState, timerActive,
                   mPreviousPowderSurfaceDone, pending, runs, errorConnected,
                   hLayerEvents, lastExecuted, exitCause, exitDisabled,
                   eStopCmd, furtherCmd, mutexRelock, extVars>>

\* onOPCDataUpdated: a rising edge of the polled LaySurface_Done
RisingEdge(prev, cur) == ~prev /\ cur

\* onTimerTick while Running: read the PLC data through the worker's OPC
\* manager (else through the GUI's controller); on a rising edge of
\* LaySurface_Done call notifyPLCPrepared (flag and notify_one, no mutex)
GuiTimerTick ==
    /\ gPc = "idle"
    /\ timerActive /\ mState = "Running"
    /\ workerOpc = "ready" \/ ctrlOpc = "ready"
    /\ \E ok \in BOOLEAN :
        IF ok
        THEN /\ IF RisingEdge(mPreviousPowderSurfaceDone, LaySurface_Done)
                THEN /\ mPLCPrepared' = TRUE
                     /\ consumerPc' = Wake(consumerPc, "c_plc_blk", "c_plc_rdy")
                     /\ hNotified' = IF hNotified < 2 THEN hNotified + 1
                                     ELSE hNotified
                ELSE UNCHANGED <<mPLCPrepared, consumerPc, hNotified>>
             /\ mPreviousPowderSurfaceDone' = LaySurface_Done
             /\ UNCHANGED <<workerOpc, ctrlOpc>>
        ELSE /\ IF workerOpc = "ready"
                THEN workerOpc' = "lost" /\ UNCHANGED ctrlOpc
                ELSE ctrlOpc' = "lost" /\ UNCHANGED workerOpc
             /\ UNCHANGED <<mPLCPrepared, consumerPc,
                            mPreviousPowderSurfaceDone, hNotified>>
    /\ UNCHANGED <<mStopRequested, mEmergencyStopFlag, mProducerFinished,
                   mLayerRequested, mProcessMode, mQueue, mMaxQueue,
                   mTotalLayers, mMutex, producerPc, pLayer, layerNumber,
                   cmdIdx, plcVars, mState, timerActive, gPc, pending, runs,
                   errorConnected, hLayerEvents, lastExecuted, exitCause,
                   exitDisabled, eStopCmd, furtherCmd, eStopPlcWrite,
                   mutexRelock, dllVars, wlpResult, clientVars, unitVars,
                   hObserved, hPauseLayer, hStyleLoads>>

\* the operator initialises the GUI's OPC controller
CtrlOpcInitialize ==
    /\ gPc = "idle"
    /\ ctrlOpc # "ready"
    /\ ctrlOpc' = "ready"
    /\ UNCHANGED <<flagVars, mProcessMode, mQueue, mMaxQueue, mTotalLayers,
                   mMutex, producerPc, pLayer, consumerPc, layerNumber,
                   cmdIdx, plcVars, workerOpc, guiVars, obsVars>>

\* setMaxQueuedLayers(sz)
SetMaxQueuedLayers ==
    /\ gPc = "idle"
    /\ \E sz \in RequestedCapacities : mMaxQueue' = ClampMaxQueue(sz)
    /\ UNCHANGED <<flagVars, mProcessMode, mQueue, mTotalLayers, mMutex,
                   producerPc, pLayer, consumerPc, layerNumber, cmdIdx,
                   plcVars, workerOpc, ctrlOpc, guiVars, obsVars>>

\* a condition-variable wait may return without a notify
SpuriousWakeup ==
    /\ \/ /\ producerPc \in {"p_lr_blk", "p_nf_blk"}
          /\ producerPc' = WakeAllProducer(producerPc)
          /\ UNCHANGED consumerPc
       \/ /\ consumerPc \in {"c_ne_blk", "c_plc_blk"}
          /\ consumerPc' = WakeAllConsumer(consumerPc)
          /\ UNCHANGED producerPc
    /\ UNCHANGED <<flagVars, mProcessMode, mQueue, mMaxQueue, mTotalLayers,
                   mMutex, pLayer, layerNumber, cmdIdx, plcVars, workerOpc,
                   ctrlOpc, guiVars, obsVars>>

\* pauseProcess: only from Running; the poll timer stops, the scheduler is
\* not told
GuiPause ==
    /\ gPc = "idle" /\ pending = {}
    /\ mState = "Running"
    /\ mState' = "Paused"
    /\ timerActive' = FALSE
    /\ hPauseLayer' = layerNumber
    /\ UNCHANGED <<flagVars, mProcessMode, mQueue, mMaxQueue, mTotalLayers,
                   mMutex, producerPc, pLayer, consumerPc, layerNumber,
                   cmdIdx, plcVars, workerOpc, ctrlOpc,
                   mPreviousPowderSurfaceDone, gPc, pending, runs,
                   errorConnected, hLayerEvents, lastExecuted, exitCause,
                   exitDisabled, eStopCmd, furtherCmd, eStopPlcWrite,
                   mutexRelock, dllVars, wlpResult, clientVars, unitVars,
                   hObserved, hNotified, hStyleLoads>>

\* resumeProcess: only from Paused; the poll timer restarts
GuiResume ==
    /\ gPc = "idle" /\ pending = {}
    /\ mState = "Paused"
    /\ mState' = "Running"
    /\ timerActive' = TRUE
    /\ hPauseLayer' = 0
    /\ UNCHANGED <<flagVars, mProcessMode, mQueue, mMaxQueue, mTotalLayers,
                   mMutex, producerPc, pLayer, consumerPc, layerNumber,
                   cmdIdx, plcVars, workerOpc, ctrlOpc,
                   mPreviousPowderSurfaceDone, gPc, pending, runs,
                   errorConnected, hLayerEvents, lastExecuted, exitCause,
                   exitDisabled, eStopCmd, furtherCmd, eStopPlcWrite,
                   mutexRelock, dllVars, wlpResult, clientVars, unitVars,
                   hObserved, hNotified, hStyleLoads>>

GuiStep ==
    \/ GuiStartProduction \/ GuiOnSystemReady \/ GuiStartTest
    \/ GuiStartProducer \/ GuiStop \/ GuiJoinProducer \/ GuiJoinConsumer
    \/ GuiStopFinish \/ GuiOnScanProcessError \/ GuiOnScanProcessFinished
    \/ GuiEmergencyStop \/ GuiEmergencyStopFinish \/ GuiTimerTick
    \/ GuiPause \/ GuiResume

\* The program as the repository runs it: the GUI's own OPC controller is
\* never initialised and the queue capacity is never reconfigured.
Next ==
    \/ ProducerStep \/ ConsumerStep \/ GuiStep \/ PlcStep
    \/ OpcWorkerInit \/ SpuriousWakeup

Spec == Init /\ [][Next]_vars

\* ... with a caller of setMaxQueuedLayers
NextCapacity == Next \/ SetMaxQueuedLayers

SpecCapacity == Init /\ [][NextCapacity]_vars

\* ... with an operator who initialises the GUI's OPC controller
NextOperator == Next \/ CtrlOpcInitialize

SpecOperator == Init /\ [][NextOperator]_vars

\* ... with the simulator's timing: a preparation takes 2 s and the poll
\* timer fires every 500 ms, so while the process is polling the rise of
\* LaySurface_Done comes after a poll that has read it FALSE
PollHasSeenReset ==
    (timerActive /\ mState = "Running" /\ workerOpc = "ready")
        => ~mPreviousPowderSurfaceDone

PlcFinishPrepareTimed == PollHasSeenReset /\ PlcFinishPrepare

NextTimed ==
    \/ ProducerStep \/ ConsumerStep \/ GuiStep
    \/ PlcBeginPrepare \/ PlcFinishPrepareTimed \/ PlcReset
    \/ OpcWorkerInit \/ SpuriousWakeup

SpecTimed == Init /\ [][NextTimed]_vars

\* ------------------------------------------------- OPCServerManagerUA
\* One client object and its callers.  mStateMutex guards mClient,
\* mIsInitialized and mConnectionLost; mUaCallMutex serialises the calls
\* into the OPC UA library.  Positions of a calling thread: "n_ready" (state
\* validated, no mutex held), "n_call" (library call in progress under
\* mUaCallMutex), "n_log" (bad status: log), "h_lock" / "h_state" / "h_emit"
\* / "h_log" (handleConnectionLoss: lock mStateMutex, mark, notify),
\* "i_connect" (initialize: UA_Client_connect), "e_state" / "e_relock" /
\* "e_hung" (writeEmergencyStop).

\* the scheduler, its tasks, the PLC and the GUI
runVars == <<flagVars, mProcessMode, mQueue, mMaxQueue, mTotalLayers,
             mMutex, producerPc, pLayer, consumerPc, layerNumber, cmdIdx,
             plcVars, workerOpc, ctrlOpc, guiVars, hLayerEvents,
             lastExecuted, exitCause, exitDisabled, eStopCmd, furtherCmd,
             eStopPlcWrite, mutexRelock, wlpResult, hObserved, histVars>>

\* everything but the client object
schedVars == <<runVars, dllVars, unitVars>>

\* a loss notification emitted on every detection
AlwaysEmitLoss(lost) == TRUE

\* handleConnectionLoss: the notification is due on the first detection
ShouldEmitLoss(lost) == ~lost

\* read/write node, stage 1: lock mStateMutex, validate, copy the client
\* pointer, unlock
NodeBegin(t) ==
    /\ cliPc[t] = "idle"
    /\ mStateMutex = "free"
    /\ cliPc' = [cliPc EXCEPT ![t] =
                    IF mConnectionLost \/ ~mIsInitialized
                    THEN "idle" ELSE "n_ready"]
    /\ UNCHANGED <<schedVars, mStateMutex, mUaCallMutex, mIsInitialized,
                   mConnectionLost, sessionOpen, lostEmitted>>

\* stage 2: lock mUaCallMutex and call UA_Client_read/writeValueAttribute
NodeCall(t) ==
    /\ cliPc[t] = "n_ready"
    /\ mUaCallMutex = "free"
    /\ mUaCallMutex' = t
    /\ cliPc' = [cliPc EXCEPT ![t] = "n_call"]
    /\ UNCHANGED <<schedVars, mStateMutex, mIsInitialized, mConnectionLost,
                   sessionOpen, lostEmitted>>

\* the library call returns: good (unlock, done), another bad status (log),
\* or BadConnectionClosed / BadSessionClosed (handleConnectionLoss), the
\* last two still inside the scope of the mUaCallMutex lock
NodeReturn(t) ==
    /\ cliPc[t] = "n_call"
    /\ IF sessionOpen
       THEN \E good \in BOOLEAN :
              IF good
              THEN /\ mUaCallMutex' = "free"
                   /\ cliPc' = [cliPc EXCEPT ![t] = "idle"]
              ELSE /\ cliPc' = [cliPc EXCEPT ![t] = "n_log"]
                   /\ UNCHANGED mUaCallMutex
       ELSE /\ cliPc' = [cliPc EXCEPT ![t] = "h_lock"]
            /\ UNCHANGED mUaCallMutex
    /\ UNCHANGED <<schedVars, mStateMutex, mIsInitialized, mConnectionLost,
                   sessionOpen, lostEmitted>>

\* handleConnectionLoss: lock mStateMutex
HandleLossLock(t) ==
    /\ cliPc[t] = "h_lock"
    /\ mStateMutex = "free"
    /\ mStateMutex' = t
    /\ cliPc' = [cliPc EXCEPT ![t] = "h_state"]
    /\ UNCHANGED <<schedVars, mUaCallMutex, mIsInitialized, mConnectionLost,
                   sessionOpen, lostEmitted>>

\* handleConnectionLoss: mark the loss on the first detection, unlock
HandleLossMark(t) ==
    /\ cliPc[t] = "h_state"
    /\ cliPc' = [cliPc EXCEPT ![t] =
                    IF ShouldEmitLoss(mConnectionLost)
                    THEN "h_emit" ELSE "h_log"]
    /\ mConnectionLost' = TRUE
    /\ mIsInitialized' = FALSE
    /\ mStateMutex' = "free"
    /\ UNCHANGED <<schedVars, mUaCallMutex, sessionOpen, lostEmitted>>

\* the notification: log (and connectionLost when due); the caller then
\* returns and the scope of the mUaCallMutex lock ends
NodeNotify(t) ==
    /\ cliPc[t] \in {"n_log", "h_emit", "h_log"}
    /\ lostEmitted' = IF cliPc[t] = "h_emit"
                      THEN lostEmitted + 1 ELSE lostEmitted
    /\ mUaCallMutex' = "free"
    /\ cliPc' = [cliPc EXCEPT ![t] = "idle"]
    /\ UNCHANGED <<schedVars, mStateMutex, mIsInitialized, mConnectionLost,
                   sessionOpen>>

\* initialize: lock mStateMutex for the whole function, reset the loss flag,
\* then connectToServer (UA_Client_connect).  A session starts here.
ClientInitialize ==
    /\ \A t \in ClientThreads : cliPc[t] = "idle"
    /\ mStateMutex = "free"
    /\ mStateMutex' = "operator"
    /\ mConnectionLost' = FALSE
    /\ lostEmitted' = 0
    /\ cliPc' = [cliPc EXCEPT !["operator"] = "i_connect"]
    /\ UNCHANGED <<schedVars, mUaCallMutex, mIsInitialized, sessionOpen>>

\* initialize: UA_Client_connect returns, the scoped lock ends
ClientConnected ==
    /\ cliPc["operator"] = "i_connect"
    /\ \E ok \in BOOLEAN :
         /\ mIsInitialized' = ok
         /\ sessionOpen' = ok
    /\ mStateMutex' = "free"
    /\ cliPc' = [cliPc EXCEPT !["operator"] = "idle"]
    /\ UNCHANGED <<schedVars, mUaCallMutex, mConnectionLost, lostEmitted>>

\* writeEmergencyStop: lock mStateMutex
ClientEmergencyStop ==
    /\ cliPc["operator"] = "idle"
    /\ mStateMutex = "free"
    /\ mStateMutex' = "operator"
    /\ cliPc' = [cliPc EXCEPT !["operator"] = "e_state"]
    /\ UNCHANGED <<schedVars, mUaCallMutex, mIsInitialized, mConnectionLost,
                   sessionOpen, lostEmitted>>

\* writeEmergencyStop: under the lock, log and return when the connection
\* is lost, call writeBoolNode when initialised
EStopCheck ==
    /\ cliPc["operator"] = "e_state"
    /\ IF ~mConnectionLost /\ mIsInitialized
       THEN /\ cliPc' = [cliPc EXCEPT !["operator"] = "e_relock"]
            /\ UNCHANGED mStateMutex
       ELSE /\ cliPc' = [cliPc EXCEPT !["operator"] = "idle"]
            /\ mStateMutex' = "free"
    /\ UNCHANGED <<schedVars, mUaCallMutex, mIsInitialized, mConnectionLost,
                   sessionOpen, lostEmitted>>

\* writeBoolNode, stage 1, called with mStateMutex held by the caller: the
\* thread blocks for ever, or the lock throws and the unwinding releases
\* the caller's lock
EStopRelock ==
    /\ cliPc["operator"] = "e_relock"
    /\ IF mutexRelock = "deadlock"
       THEN /\ cliPc' = [cliPc EXCEPT !["operator"] = "e_hung"]
            /\ UNCHANGED mStateMutex
       ELSE /\ cliPc' = [cliPc EXCEPT !["operator"] = "idle"]
            /\ mStateMutex' = "free"
    /\ UNCHANGED <<schedVars, mUaCallMutex, mIsInitialized, mConnectionLost,
                   sessionOpen, lostEmitted>>

\* the server or the network closes the session
SessionClose ==
    /\ sessionOpen
    /\ sessionOpen' = FALSE
    /\ UNCHANGED <<schedVars, mStateMutex, mUaCallMutex, mIsInitialized,
                   mConnectionLost, cliPc, lostEmitted>>

NextClient ==
    \/ \E t \in ClientThreads : NodeBegin(t)
    \/ \E t \in ClientThreads : NodeCall(t)
    \/ \E t \in ClientThreads : NodeReturn(t)
    \/ \E t \in ClientThreads : HandleLossLock(t)
    \/ \E t \in ClientThreads : HandleLossMark(t)
    \/ \E t \in ClientThreads : NodeNotify(t)
    \/ ClientInitialize \/ ClientConnected
    \/ ClientEmergencyStop \/ EStopCheck \/ EStopRelock
    \/ SessionClose

SpecClient == Init /\ [][NextClient]_vars

\* ------------------------------------------------------------ Scanner
\* The device adapter on its own, called from any thread.  scMutex is
\* Scanner::mMutex: a thread that locks it again while holding it (every
\* logMessage under the lock does) blocks for ever in the "deadlock" build
\* and then keeps it; in the other build the lock throws inside logMessage,
\* which swallows the exception.

AdapterThreads == {"consumer", "gui"}

\* operations that take no lock of their own
DirectOps == {"enableLaser", "disableLaser", "jumpTo", "markTo",
              "executeList", "prepareListForLayer", "waitForListCompletion"}

\* the operations whose body calls assertOwnerThread()
OwnerCheckedOps == {"shutdown", "startScanning", "stopScanning",
                    "enableLaser", "disableLaser"}

ChecksOwner(op) == op \in OwnerCheckedOps

\* assertOwnerThread: passes while no owner is recorded
WrongThread(t) == mOwnerThread # "none" /\ mOwnerThread # t

Called(op, t, outcome) ==
    [op |-> op, thread |-> t, owner |-> mOwnerThread, outcome |-> outcome]

\* Scanner::initialize
AdapterInitialize(t) ==
    /\ scMutex = "free"
    /\ IF scInitialized
       THEN /\ scMutex' = IF mutexRelock = "deadlock" THEN t ELSE "free"
            /\ adLast' = Called("initialize", t, "noop")
            /\ UNCHANGED <<mOwnerThread, scInitialized, dllVars>>
       ELSE IF mutexRelock = "deadlock"
       THEN /\ mOwnerThread' = t
            /\ scMutex' = t
            /\ adLast' = Called("initialize", t, "noop")
            /\ UNCHANGED <<scInitialized, dllVars>>
       ELSE \E outcome \in {"ok", "open", "device"} :
              /\ outcome = "open" => sRefCount = 0
              /\ scInitialized' = (outcome = "ok")
              /\ mOwnerThread' = IF outcome = "ok" THEN t ELSE "none"
              /\ sRefCount' = IF outcome = "ok"
                              THEN AcquireDLL(sRefCount) ELSE sRefCount
              /\ rtc5Open' = IF outcome = "ok" THEN TRUE
                             ELSE IF sRefCount = 0 THEN FALSE ELSE rtc5Open
              /\ adLast' = Called("initialize", t,
                                  IF outcome = "open" THEN "refused"
                                  ELSE "device")
              /\ UNCHANGED <<scMutex, refBefore>>
    /\ UNCHANGED <<runVars, clientVars, builderVars, calibVars, moreUnitVars,
                   mIsScanning>>

\* Scanner::shutdown; its stopScanning() locks mMutex again and does nothing
AdapterShutdown(t) ==
    /\ scMutex = "free"
    /\ IF ~scInitialized
       THEN /\ adLast' = Called("shutdown", t, "refused")
            /\ UNCHANGED <<mOwnerThread, scInitialized, scMutex, dllVars>>
       ELSE IF ChecksOwner("shutdown") /\ WrongThread(t)
       THEN /\ adLast' = Called("shutdown", t, "fatal")
            /\ UNCHANGED <<mOwnerThread, scInitialized, scMutex, dllVars>>
       ELSE IF mutexRelock = "deadlock"
       THEN /\ scMutex' = t
            /\ adLast' = Called("shutdown", t, "noop")
            /\ UNCHANGED <<mOwnerThread, scInitialized, dllVars>>
       ELSE /\ scInitialized' = FALSE
            /\ mOwnerThread' = "none"
            /\ rtc5Open' = FALSE
            /\ sRefCount' = ReleaseDLL(sRefCount)
            /\ adLast' = Called("shutdown", t, "device")
            /\ UNCHANGED <<scMutex, refBefore>>
    /\ UNCHANGED <<runVars, clientVars, builderVars, calibVars, moreUnitVars,
                   mIsScanning>>

\* Scanner::startScanning
AdapterStartScanning(t) ==
    /\ scMutex = "free"
    /\ IF ChecksOwner("startScanning") /\ WrongThread(t)
       THEN /\ adLast' = Called("startScanning", t, "fatal")
            /\ UNCHANGED <<mIsScanning, scMutex>>
       ELSE /\ scMutex' = IF mutexRelock = "deadlock" THEN t ELSE "free"
            /\ IF ~scInitialized
               THEN /\ adLast' = Called("startScanning", t, "refused")
                    /\ UNCHANGED mIsScanning
               ELSE IF mIsScanning
               THEN /\ adLast' = Called("startScanning", t, "noop")
                    /\ UNCHANGED mIsScanning
               ELSE /\ adLast' = Called("startScanning", t, "device")
                    /\ mIsScanning' = TRUE
    /\ UNCHANGED <<runVars, clientVars, dllVars, builderVars, calibVars,
                   moreUnitVars,
                   mOwnerThread,
                   scInitialized>>

\* Scanner::stopScanning
AdapterStopScanning(t) ==
    /\ scMutex = "free"
    /\ IF ChecksOwner("stopScanning") /\ WrongThread(t)
       THEN /\ adLast' = Called("stopScanning", t, "fatal")
            /\ UNCHANGED <<mIsScanning, scMutex>>
       ELSE IF ~mIsScanning
       THEN /\ adLast' = Called("stopScanning", t, "noop")
            /\ UNCHANGED <<mIsScanning, scMutex>>
       ELSE /\ adLast' = Called("stopScanning", t, "device")
            /\ mIsScanning' = FALSE
            /\ scMutex' = IF mutexRelock = "deadlock" THEN t ELSE "free"
    /\ UNCHANGED <<runVars, clientVars, dllVars, builderVars, calibVars,
                   moreUnitVars,
                   mOwnerThread,
                   scInitialized>>

\* the operations without a lock: enableLaser, disableLaser, jumpTo,
\* markTo, executeList, prepareListForLayer, waitForListCompletion
AdapterCall(t, op) ==
    /\ scMutex # t
    /\ adLast' = Called(op, t,
                        IF ChecksOwner(op) /\ WrongThread(t) THEN "fatal"
                        ELSE IF ~scInitialized THEN "refused"
                        ELSE "device")
    /\ UNCHANGED <<runVars, clientVars, dllVars, builderVars, calibVars,
                   moreUnitVars,
                   mOwnerThread,
                   scInitialized, mIsScanning, scMutex>>

NextAdapter ==
    \/ \E t \in AdapterThreads : AdapterInitialize(t)
    \/ \E t \in AdapterThreads : AdapterShutdown(t)
    \/ \E t \in AdapterThreads : AdapterStartScanning(t)
    \/ \E t \in AdapterThreads : AdapterStopScanning(t)
    \/ \E t \in AdapterThreads : \E op \in DirectOps : AdapterCall(t, op)

SpecAdapter == Init /\ [][NextAdapter]_vars

\* ------------------------------------------------ block builder (producer)
\* producerThreadFunc reads a layer and converts it to a command block
\* (convertLayerToBlock: hatches, then polylines, then polygons); the
\* consumer later writes the layer parameters of the block.  Thicknesses are
\* counted in 1/ThicknessUnitsPerMM mm.

MaxGeoms == 3
MaxItems == 2
ThicknessUnitsPerMM == 10000
MicronsPerMM == 1000

\* the thickness the slice file of scenario S2 was cut with (0.2 mm)
S2Thickness == ThicknessUnitsPerMM \div 5

\* thicknesses a slice file may have been cut with
Thicknesses == {0, S2Thickness, S2Thickness + 5, 3 * S2Thickness}

Stages == <<"hatches", "polylines", "polygons">>
StageRank(st) == CHOOSE i \in 1..Len(Stages) : Stages[i] = st

\* readLayer: the thickness is not serialised, the layer gets 0
ReadLayerThickness(nominal) == 0

\* the consumer's deltaValue: thickness in mm times 1000, truncated
DeltaValue(thickness) == (thickness * MicronsPerMM) \div ThicknessUnitsPerMM

\* the arguments of writeLayerParameters for a block
LayerParameters(thickness) ==
    <<1, DeltaValue(thickness), DeltaValue(thickness)>>

\* commands emitted for a geometry of n lines (hatch) or n points
HatchCommands(n) == 2 * n
PolylineCommands(n) == n
PolygonCommands(n) == n + 1

\* applyBuildStyle: nothing for a block without commands, else a segment
\* from cmdStartIdx to the last command
ApplyBuildStyle(segs, cmds, cmdStartIdx) ==
    IF cmds = 0 THEN segs
    ELSE Append(segs, [startCmd |-> cmdStartIdx, endCmd |-> cmds - 1])

\* a geometry converted: its commands are appended and, when a style is
\* found for its type (or the default type), its segment is added
Converted(count, styled) ==
    /\ blkCommands' = blkCommands + count
    /\ blkSegments' = IF styled
                      THEN ApplyBuildStyle(blkSegments, blkCommands + count,
                                           blkCommands)
                      ELSE blkSegments

\* the producer reads the next layer and creates its block
BuilderReadLayer ==
    /\ \E nominal \in Thicknesses :
         /\ blkNominal' = nominal
         /\ blkThickness' = ReadLayerThickness(nominal)
    /\ blkCommands' = 0
    /\ blkSegments' = <<>>
    /\ blkStage' = "hatches"
    /\ blkGeoms' = 0
    /\ wlpArgs' = <<>>
    /\ UNCHANGED <<runVars, clientVars, dllVars, adapterVars, calibVars,
                   moreUnitVars>>

\* convertHatch: two commands per line, also for a hatch without lines
ConvertHatch ==
    /\ blkGeoms < MaxGeoms
    /\ blkStage = "hatches"
    /\ wlpArgs = <<>>
    /\ \E n \in 0..MaxItems, styled \in BOOLEAN :
         Converted(HatchCommands(n), styled)
    /\ blkGeoms' = blkGeoms + 1
    /\ UNCHANGED <<runVars, clientVars, dllVars, adapterVars, calibVars,
                   moreUnitVars,
                   blkNominal, blkThickness, blkStage, wlpArgs>>

\* convertPolyline: nothing for a polyline without points
ConvertPolyline ==
    /\ blkGeoms < MaxGeoms
    /\ StageRank(blkStage) <= StageRank("polylines")
    /\ wlpArgs = <<>>
    /\ \E n \in 0..MaxItems, styled \in BOOLEAN :
         IF n = 0 THEN UNCHANGED <<blkCommands, blkSegments>>
         ELSE Converted(PolylineCommands(n), styled)
    /\ blkStage' = "polylines"
    /\ blkGeoms' = blkGeoms + 1
    /\ UNCHANGED <<runVars, clientVars, dllVars, adapterVars, calibVars,
                   moreUnitVars,
                   blkNominal, blkThickness, wlpArgs>>

\* convertPolygon: nothing for a polygon without points, else the loop is
\* closed with one more mark
ConvertPolygon ==
    /\ blkGeoms < MaxGeoms
    /\ wlpArgs = <<>>
    /\ \E n \in 0..MaxItems, styled \in BOOLEAN :
         IF n = 0 THEN UNCHANGED <<blkCommands, blkSegments>>
         ELSE Converted(PolygonCommands(n), styled)
    /\ blkStage' = "polygons"
    /\ blkGeoms' = blkGeoms + 1
    /\ UNCHANGED <<runVars, clientVars, dllVars, adapterVars, calibVars,
                   moreUnitVars,
                   blkNominal, blkThickness, wlpArgs>>

\* the consumer, production mode: writeLayerParameters(1, delta, delta)
BuilderWriteLayerParameters ==
    /\ wlpArgs = <<>>
    /\ wlpArgs' = LayerParameters(blkThickness)
    /\ UNCHANGED <<runVars, clientVars, dllVars, adapterVars, calibVars,
                   moreUnitVars,
                   blkNominal, blkThickness, blkCommands, blkSegments,
                   blkStage, blkGeoms>>

NextBuilder ==
    \/ BuilderReadLayer
    \/ ConvertHatch \/ ConvertPolyline \/ ConvertPolygon
    \/ BuilderWriteLayerParameters

SpecBuilder == Init /\ [][NextBuilder]_vars

\* ------------------------------------------------- coordinate conversion
\* mmToBits with the default calibration (CoordCalib).  Millimetres are
\* counted in tenths; a product mm * bitsPerMM is kept as the numerator
\* over fieldSizeTenthMM.

maxBits == 524287
fieldSizeTenthMM == 1634

\* +/- this many tenths of a millimetre is the edge of the field
FieldLimit == fieldSizeTenthMM \div 2

\* the inputs tried: around zero, around the field limit, far outside
CalibInputs == {0, 1, -1, 5, FieldLimit - 1, FieldLimit, FieldLimit + 1,
                -(FieldLimit - 1), -FieldLimit, -(FieldLimit + 1),
                2 * FieldLimit, -(2 * FieldLimit)}

\* mm * bitsPerMM, with bitsPerMM = 2 * maxBits / fieldSizeMM
ScaledBits(x) == x * 2 * maxBits

\* a product passed on without the limits
UnclampedBits(num) == num

\* if (bits > mx) bits = mx; if (bits < -mx) bits = -mx
ClampBits(num) ==
    IF num > maxBits * fieldSizeTenthMM THEN maxBits * fieldSizeTenthMM
    ELSE IF num < -(maxBits * fieldSizeTenthMM)
    THEN -(maxBits * fieldSizeTenthMM)
    ELSE num

\* std::lround: to the nearest integer, halves away from zero
LRound(num) ==
    LET mag == IF num < 0 THEN -num ELSE num
        q == mag \div fieldSizeTenthMM
        r == mag % fieldSizeTenthMM
        n == IF 2 * r >= fieldSizeTenthMM THEN q + 1 ELSE q
    IN  IF num < 0 THEN -n ELSE n

mmToBits(x) == LRound(ClampBits(ScaledBits(x)))

\* two coordinates are converted
CalibConvert ==
    /\ \E x \in CalibInputs, y \in CalibInputs :
         /\ calX' = x
         /\ calY' = y
         /\ calBitsX' = mmToBits(x)
         /\ calBitsY' = mmToBits(y)
    /\ UNCHANGED <<runVars, clientVars, dllVars, adapterVars, builderVars,
                   moreUnitVars>>

NextCalib == CalibConvert

SpecCalib == Init /\ [][NextCalib]_vars

\* ------------------------------------------- command batching (consumer)
\* The consumer's command loop over one block, with the device list it
\* fills: prepareListForLayer opens the list (set_start_list), jumpTo /
\* markTo queue one command each, executeList closes and executes it.

MaxBlockLen == 10
ListMemory == 14
BatchMargin == 10

\* MAX_COMMANDS_PER_BATCH = mScannerConfig.listMemory - 10
MaxCommandsPerBatch == ListMemory - BatchMargin

\* Scanner::getCurrentListLevel(): the adapter's counter
GetCurrentListLevel == mListLevel

\* the adapter's counter after jumpTo / markTo: neither touches mListLevel
ListLevelAfterCommand(level) == level

\* a block is taken and the list is opened for it
BatchPrepare ==
    /\ bPc = "idle"
    /\ \E n \in 0..MaxBlockLen : bLen' = n
    /\ bIdx' = 0
    /\ listQueued' = 0
    /\ bPc' = "loop"
    /\ UNCHANGED <<runVars, clientVars, dllVars, adapterVars, builderVars,
                   calibVars, workerVars, simVars, mListLevel>>

\* one iteration of the command loop: when the list level has reached the
\* threshold the batch is executed and a new list opened; then the command
\* is queued
BatchCommand ==
    /\ bPc = "loop" /\ bIdx < bLen
    /\ listQueued' = (IF GetCurrentListLevel >= MaxCommandsPerBatch
                      THEN 0 ELSE listQueued) + 1
    /\ mListLevel' = ListLevelAfterCommand(mListLevel)
    /\ bIdx' = bIdx + 1
    /\ UNCHANGED <<runVars, clientVars, dllVars, adapterVars, builderVars,
                   calibVars, workerVars, simVars, bPc, bLen>>

\* after the loop: executeList for the final batch
BatchExecute ==
    /\ bPc = "loop" /\ bIdx = bLen
    /\ bPc' = "idle"
    /\ UNCHANGED <<runVars, clientVars, dllVars, adapterVars, builderVars,
                   calibVars, workerVars, simVars, bLen, bIdx, mListLevel,
                   listQueued>>

NextBatch == BatchPrepare \/ BatchCommand \/ BatchExecute

SpecBatch == Init /\ [][NextBatch]_vars

\* --------------------------------------------------- SLMWorkerManager
\* The worker manager (GUI thread) and its OPC worker thread.  Positions of
\* the thread (opcThreadFunc): "entry" (created), "init" (running flag
\* stored, signals connected), "store" (OPCWorker::initialize returned),
\* "wait" (about to evaluate the shutdown wait), "wait_pre" (predicate found
\* false, mOPCMutex held), "wait_blk" (blocked on mOPCCv), "shutdown" (left
\* the wait), "exited".  wSignal holds the queued signals on their way to
\* the GUI thread.

MaxStarts == 2

\* SLMWorkerManager::getOPCManager(): atomic load of the stored pointer
GetOPCManager == mOPCManagerPtr

\* notify_all on mOPCCv
WakeWorker(pc) == IF pc = "wait_blk" THEN "wait" ELSE pc

\* startWorkers: refused while initialised or while the handle is joinable
StartWorkers ==
    /\ wGui = "idle"
    /\ ~mOPCInitialized /\ wPc = "off"
    /\ wStarts < MaxStarts
    /\ wStarts' = wStarts + 1
    /\ mOPCRunning' = TRUE
    /\ wPc' = "entry"
    /\ UNCHANGED <<runVars, clientVars, dllVars, adapterVars, builderVars,
                   calibVars, batchVars, simVars, wGui, mOPCManagerPtr,
                   wManager, wSignal, mOPCInitialized, mOPCMutex, hReadyPtr>>

\* opcThreadFunc, first statements: mOPCRunning.store(true)
WorkerEntry ==
    /\ wPc = "entry"
    /\ mOPCRunning' = TRUE
    /\ wPc' = "init"
    /\ UNCHANGED <<runVars, clientVars, dllVars, adapterVars, builderVars,
                   calibVars, batchVars, simVars, wGui, mOPCManagerPtr,
                   wManager, wSignal, mOPCInitialized, mOPCMutex, hReadyPtr,
                   wStarts>>

\* OPCWorker::initialize: creates and connects the manager and emits
\* initialized(true), or resets it and emits initialized(false)
WorkerInitialize ==
    /\ wPc = "init"
    /\ \E ok \in BOOLEAN :
        /\ wManager' = IF ok THEN "manager" ELSE "null"
        /\ wSignal' = wSignal \cup {IF ok THEN "init_ok" ELSE "init_fail"}
    /\ wPc' = "store"
    /\ UNCHANGED <<runVars, clientVars, dllVars, adapterVars, builderVars,
                   calibVars, batchVars, simVars, wGui, mOPCRunning,
                   mOPCManagerPtr, mOPCInitialized, mOPCMutex, hReadyPtr,
                   wStarts>>

\* after initialize returned: the manager pointer is stored when non-null
WorkerStorePointer ==
    /\ wPc = "store"
    /\ mOPCManagerPtr' = IF wManager # "null" THEN wManager
                         ELSE mOPCManagerPtr
    /\ wPc' = "wait"
    /\ UNCHANGED <<runVars, clientVars, dllVars, adapterVars, builderVars,
                   calibVars, batchVars, simVars, wGui, mOPCRunning,
                   wManager, wSignal, mOPCInitialized, mOPCMutex, hReadyPtr,
                   wStarts>>

\* mOPCCv.wait(lk, !mOPCRunning): lock, evaluate, leave or prepare to block
WorkerWait ==
    /\ wPc = "wait"
    /\ mOPCMutex = "free"
    /\ IF ~mOPCRunning
       THEN wPc' = "shutdown" /\ UNCHANGED mOPCMutex
       ELSE wPc' = "wait_pre" /\ mOPCMutex' = "worker"
    /\ UNCHANGED <<runVars, clientVars, dllVars, adapterVars, builderVars,
                   calibVars, batchVars, simVars, wGui, mOPCRunning,
                   mOPCManagerPtr, wManager, wSignal, mOPCInitialized,
                   hReadyPtr, wStarts>>

\* the wait releases the mutex and blocks
WorkerBlock ==
    /\ wPc = "wait_pre"
    /\ wPc' = "wait_blk"
    /\ mOPCMutex' = "free"
    /\ UNCHANGED <<runVars, clientVars, dllVars, adapterVars, builderVars,
                   calibVars, batchVars, simVars, wGui, mOPCRunning,
                   mOPCManagerPtr, wManager, wSignal, mOPCInitialized,
                   hReadyPtr, wStarts>>

\* a wait may return without a notify
WorkerSpuriousWakeup ==
    /\ wPc = "wait_blk"
    /\ wPc' = "wait"
    /\ UNCHANGED <<runVars, clientVars, dllVars, adapterVars, builderVars,
                   calibVars, batchVars, simVars, wGui, mOPCRunning,
                   mOPCManagerPtr, wManager, wSignal, mOPCInitialized,
                   mOPCMutex, hReadyPtr, wStarts>>

\* after the wait: OPCWorker::shutdown (emits shutdown_complete), the
\* stored pointer is cleared, the thread function returns
WorkerShutdown ==
    /\ wPc = "shutdown"
    /\ wManager' = "null"
    /\ wSignal' = wSignal \cup {"shutdown"}
    /\ mOPCManagerPtr' = "null"
    /\ wPc' = "exited"
    /\ UNCHANGED <<runVars, clientVars, dllVars, adapterVars, builderVars,
                   calibVars, batchVars, simVars, wGui, mOPCRunning,
                   mOPCInitialized, mOPCMutex, hReadyPtr, wStarts>>

\* onOPCInitialized (queued): records the result; success emits systemReady
\* (queued to the process controller)
OnOPCInitialized ==
    /\ wGui = "idle"
    /\ \E sig \in {"init_ok", "init_fail"} :
        /\ sig \in wSignal
        /\ mOPCInitialized' = (sig = "init_ok")
        /\ wSignal' = (wSignal \ {sig}) \cup
                        (IF sig = "init_ok" THEN {"systemReady"} ELSE {})
    /\ UNCHANGED <<runVars, clientVars, dllVars, adapterVars, builderVars,
                   calibVars, batchVars, simVars, wPc, wGui, mOPCRunning,
                   mOPCManagerPtr, wManager, mOPCMutex, hReadyPtr, wStarts>>

\* onOPCShutdown (queued)
OnOPCShutdown ==
    /\ wGui = "idle"
    /\ "shutdown" \in wSignal
    /\ wSignal' = wSignal \ {"shutdown"}
    /\ mOPCInitialized' = FALSE
    /\ UNCHANGED <<runVars, clientVars, dllVars, adapterVars, builderVars,
                   calibVars, batchVars, simVars, wPc, wGui, mOPCRunning,
                   mOPCManagerPtr, wManager, mOPCMutex, hReadyPtr, wStarts>>

\* ProcessController::onSystemReady (queued): reads the manager pointer
OnSystemReadyGetManager ==
    /\ wGui = "idle"
    /\ "systemReady" \in wSignal
    /\ wSignal' = wSignal \ {"systemReady"}
    /\ hReadyPtr' = GetOPCManager
    /\ UNCHANGED <<runVars, clientVars, dllVars, adapterVars, builderVars,
                   calibVars, batchVars, simVars, wPc, wGui, mOPCRunning,
                   mOPCManagerPtr, wManager, mOPCInitialized, mOPCMutex,
                   wStarts>>

\* stopWorkers: mOPCRunning = false under mOPCMutex, notify_all, then join
\* when the handle is joinable
StopWorkers ==
    /\ wGui = "idle"
    /\ mOPCMutex = "free"
    /\ mOPCRunning' = FALSE
    /\ wPc' = WakeWorker(wPc)
    /\ IF wPc = "off"
       THEN mOPCInitialized' = FALSE /\ UNCHANGED wGui
       ELSE wGui' = "join_stop" /\ UNCHANGED mOPCInitialized
    /\ UNCHANGED <<runVars, clientVars, dllVars, adapterVars, builderVars,
                   calibVars, batchVars, simVars, mOPCManagerPtr, wManager,
                   wSignal, mOPCMutex, hReadyPtr, wStarts>>

\* emergencyStop: mOPCRunning = false without the mutex, notify_all, join
WorkersEmergencyStop ==
    /\ wGui = "idle"
    /\ mOPCRunning' = FALSE
    /\ wPc' = WakeWorker(wPc)
    /\ IF wPc = "off"
       THEN mOPCInitialized' = FALSE /\ UNCHANGED wGui
       ELSE wGui' = "join_estop" /\ UNCHANGED mOPCInitialized
    /\ UNCHANGED <<runVars, clientVars, dllVars, adapterVars, builderVars,
                   calibVars, batchVars, simVars, mOPCManagerPtr, wManager,
                   wSignal, mOPCMutex, hReadyPtr, wStarts>>

\* mOPCThread.join() returns once the thread function has returned
JoinWorker ==
    /\ wGui \in {"join_stop", "join_estop"}
    /\ wPc = "exited"
    /\ wPc' = "off"
    /\ mOPCInitialized' = FALSE
    /\ wGui' = "idle"
    /\ UNCHANGED <<runVars, clientVars, dllVars, adapterVars, builderVars,
                   calibVars, batchVars, simVars, mOPCRunning,
                   mOPCManagerPtr, wManager, wSignal, mOPCMutex, hReadyPtr,
                   wStarts>>

WorkerThreadStep ==
    \/ WorkerEntry \/ WorkerInitialize \/ WorkerStorePointer \/ WorkerWait
    \/ WorkerBlock \/ WorkerShutdown

NextWorker ==
    \/ StartWorkers \/ WorkerThreadStep \/ WorkerSpuriousWakeup
    \/ OnOPCInitialized \/ OnOPCShutdown \/ OnSystemReadyGetManager
    \/ StopWorkers \/ WorkersEmergencyStop \/ JoinWorker

SpecWorker == Init /\ [][NextWorker]_vars

\* the worker thread runs, and a join returns once the thread has ended
SpecWorkerLive ==
    Init /\ [][NextWorker]_vars
         /\ WF_vars(WorkerThreadStep) /\ WF_vars(JoinWorker)

\* ------------------------------------------------------ OPC UA simulator
\* The simulator process after a successful start(): the main thread
\* (simMain: "waiting" for g_should_exit, "stopping", "joining", "exited")
\* and the server thread running OpcUaSimServer::run (simPc: "created",
\* "loop", "returned", "crashed").  simIters counts loop iterations.

MaxIterations == 12

NextIteration(n) == IF n < MaxIterations THEN n + 1 ELSE n

\* signal handler / stdin monitor: g_should_exit = true
SimRequestExit ==
    /\ ~g_should_exit
    /\ g_should_exit' = TRUE
    /\ UNCHANGED <<runVars, clientVars, dllVars, adapterVars, builderVars,
                   calibVars, batchVars, workerVars, m_server, simPc,
                   simMain, simIters>>

\* main: the wait for g_should_exit ends
SimMainWake ==
    /\ simMain = "waiting"
    /\ g_should_exit
    /\ simMain' = "stopping"
    /\ UNCHANGED <<runVars, clientVars, dllVars, adapterVars, builderVars,
                   calibVars, batchVars, workerVars, m_server, simPc,
                   simIters, g_should_exit>>

\* OpcUaSimServer::stop(): shut down and delete the server, clear m_server
SimStop ==
    /\ simMain = "stopping"
    /\ m_server' = "null"
    /\ simMain' = "joining"
    /\ UNCHANGED <<runVars, clientVars, dllVars, adapterVars, builderVars,
                   calibVars, batchVars, workerVars, simPc, simIters,
                   g_should_exit>>

\* OpcUaSimServer::run(), entry: returns at once when m_server is null,
\* otherwise enters the loop with its local flag running(true)
SimRunEnter ==
    /\ simPc = "created"
    /\ simPc' = IF m_server = "null" THEN "returned" ELSE "loop"
    /\ UNCHANGED <<runVars, clientVars, dllVars, adapterVars, builderVars,
                   calibVars, batchVars, workerVars, m_server, simMain,
                   simIters, g_should_exit>>

\* one pass of while (running): UA_Server_run_iterate(m_server), the
\* behaviour update and the 50 ms sleep.  The flag is local and never
\* cleared.  Once stop() has deleted the server the call works on a
\* deleted or null server: the pass either goes on or ends the process.
SimIterate ==
    /\ simPc = "loop"
    /\ \E outcome \in {"continue", "crash"} :
        /\ (m_server = "started") => outcome = "continue"
        /\ IF outcome = "continue"
           THEN simIters' = NextIteration(simIters) /\ UNCHANGED simPc
           ELSE simPc' = "crashed" /\ UNCHANGED simIters
    /\ UNCHANGED <<runVars, clientVars, dllVars, adapterVars, builderVars,
                   calibVars, batchVars, workerVars, m_server, simMain,
                   g_should_exit>>

\* main: server_thread->join() returns once run() has returned
SimJoin ==
    /\ simMain = "joining"
    /\ simPc = "returned"
    /\ simMain' = "exited"
    /\ UNCHANGED <<runVars, clientVars, dllVars, adapterVars, builderVars,
                   calibVars, batchVars, workerVars, m_server, simPc,
                   simIters, g_should_exit>>

SimThreadStep == SimRunEnter \/ SimIterate

SimMainStep == SimMainWake \/ SimStop \/ SimJoin

NextSim == SimRequestExit \/ SimThreadStep \/ SimMainStep

SpecSim == Init /\ [][NextSim]_vars

\* both threads of the simulator run
SpecSimLive ==
    Init /\ [][NextSim]_vars
         /\ WF_vars(SimThreadStep) /\ WF_vars(SimMainStep)

\* The same program with its scheduling: a task that can take a step takes
\* one (the threads run), the PLC program cycles, the poll timer fires while
\* it is active, and a handler invoked on the GUI thread runs to its end
\* (the joins return once the tasks have ended).  The operator's commands
\* and spurious wakeups are not forced.
Fairness ==
    /\ WF_vars(ProducerStep) /\ WF_vars(ConsumerStep) /\ WF_vars(PlcStep)
    /\ WF_vars(GuiTimerTick) /\ WF_vars(OpcWorkerInit)
    /\ WF_vars(GuiStartProducer)
    /\ WF_vars(GuiJoinProducer) /\ WF_vars(GuiJoinConsumer)
SpecLive == Init /\ [][Next]_vars /\ Fairness

\* ------------------------------------------------------------ properties

IsPrefix(s, t) == Len(s) <= Len(t) /\ \A i \in 1..Len(s) : s[i] = t[i]

\* the handshake of one production layer, in the order of the protocol
HandshakeOrder == <<"wlp", "edge", "exec", "complete">>

\* consumer positions between the pop of a block and the end of its layer
InLayerPcs == {"c_wlp", "c_plc", "c_plc_pre", "c_plc_blk", "c_plc_rdy",
               "c_prep", "c_cmd", "c_body", "c_gap", "c_wdone", "c_end"}

\* C1: in production mode the events of each layer occur in the order
\* write_layer_parameters, rising edge of LaySurface_Done, execute_list,
\* write_layer_execution_complete: what has happened so far for the layer
\* in hand is always a prefix of that sequence.
C1_HandshakeOrder ==
    mProcessMode = "Production" => IsPrefix(hLayerEvents, HandshakeOrder)

\* C2: once an emergency stop has arrived while a command was being
\* dispatched, no command other than the one in progress is dispatched, and
\* the consumer does not finish without having called disable_laser.
C2_NoFurtherCommand ==
    /\ ~furtherCmd
    /\ (consumerPc = "c_done" /\ eStopCmd > 0) => exitDisabled

\* C2 witness: the emergency stop came during a dispatch and the consumer
\* has ended with the laser disabled
C2_EStopWhileDispatching ==
    consumerPc = "c_done" /\ eStopCmd > 0 /\ exitDisabled

\* C3: while the emergency flag is set the consumer takes no execute_list
\* step.
C3_NoExecuteAfterEStop ==
    [][mEmergencyStopFlag => ~(consumerPc = "c_gap" /\ consumerPc' # "c_gap")]_vars

\* C4: an emergency stop of the process controller never skips the
\* StartSurfaces = FALSE write.
C4_EStopWritesPLC == eStopPlcWrite # "skipped"

\* C5: a consumer that ended because of a stop request or a device error
\* (rejected command, execute_list failure, completion timeout) has called
\* disable_laser in its exit phase.
C5_ExitDisablesLaser ==
    (consumerPc = "c_done"
        /\ exitCause \in {"stop", "reject", "execfail", "timeout"})
    => exitDisabled

\* C6: while stop() is joining (and the consumer is not stuck inside the
\* device adapter), a task can still take a step or a join can return.
C6_StopJoinsReturn ==
    (gPc = "stop_join" /\ consumerPc # "c_hung")
    => ENABLED (ProducerStep \/ ConsumerStep \/ GuiJoinProducer
                \/ GuiJoinConsumer)

\* C7: the queue never holds more blocks than the configured capacity.
C7_QueueWithinCapacity == Len(mQueue) <= mMaxQueue

\* C7 witness: a block is queued while the capacity is the one set through
\* setMaxQueuedLayers
C7_BlockQueuedAfterConfigure == Len(mQueue) = 1 /\ mMaxQueue = MinMaxQueue

\* C8: when stop() has returned the queue is empty and neither task handle
\* is joinable.
C8_StopLeavesNothing ==
    gPc = "stop_ret"
    => (mQueue = <<>> /\ ~ProducerJoinable /\ ~ConsumerJoinable)

\* C9: the queue holds at most one block whatever the capacity, and the
\* producer reads layer N+1 only when the consumer has finished layer N.
C9_SinglePieceFlow ==
    /\ Len(mQueue) <= 1
    /\ producerPc = "p_read" => lastExecuted = pLayer

\* C9 witness: the producer starts reading the second layer
C9_ProducerReadsSecondLayer ==
    producerPc = "p_read" /\ pLayer = 1 /\ mMaxQueue > 1

\* C10: while the consumer works on layer N+1, layerExecuted(N) has been
\* emitted.
C10_LayerExecutedBeforeNext ==
    consumerPc \in InLayerPcs
    => (layerNumber >= 1 /\ lastExecuted >= layerNumber - 1)

\* C10 witness: the consumer works on the second layer
C10_ConsumerOnSecondLayer ==
    consumerPc \in InLayerPcs /\ layerNumber = 2 /\ lastExecuted = 1

\* C13: once the process state is EmergencyStopped no step changes it.
C13_EmergencyStoppedIsTerminal ==
    [][mState = "EmergencyStopped" => mState' = "EmergencyStopped"]_vars

\* C19: when the consumer has ended after the scanner's shutdown, the
\* reference count of the RTC5 library is what it was before the consumer's
\* acquireDLL at the start of the run.
C19_RefCountRestored ==
    (consumerPc = "c_done" /\ exitCause \notin {"none", "init"})
    => sRefCount = refBefore

\* C20: the RTC5 library is opened only by a step that takes the reference
\* count away from 0 and closed only by a step that brings it to 0, so it
\* is open whenever the count is above zero.
C20_OpenCloseOnlyAtZero ==
    [][/\ (~rtc5Open /\ rtc5Open') => (sRefCount = 0 /\ sRefCount' > 0)
       /\ (rtc5Open /\ ~rtc5Open') => (sRefCount > 0 /\ sRefCount' = 0)
       /\ sRefCount' > 0 => rtc5Open']_vars

\* C14: a request moves the process state only along an edge of the state
\* machine: Starting is entered only from Idle, Paused only from Running,
\* and Paused is left towards Running only (resume), Idle (stop) or
\* EmergencyStopped.
C14_OnlyDrawnEdges ==
    [][/\ (mState # "Starting" /\ mState' = "Starting") => mState = "Idle"
       /\ (mState # "Paused" /\ mState' = "Paused") => mState = "Running"
       /\ (mState = "Paused" /\ mState' # "Paused")
           => mState' \in {"Running", "Idle", "EmergencyStopped"}]_vars

\* the consumer is between the write_layer_parameters call of the layer in
\* hand and the release of its wait for the PLC
WaitingForPLC == consumerPc \in {"c_plc", "c_plc_pre", "c_plc_blk", "c_plc_rdy"}

\* execute_list has been called for the layer in hand
LayerExecuted == \E i \in 1..Len(hLayerEvents) : hLayerEvents[i] = "exec"

\* C11: when write_layer_parameters has failed for the layer in hand, the
\* consumer goes on and execute_list is called for that layer (unless a
\* stop is requested first).
C11_FailedWriteStillExecutes ==
    (WaitingForPLC /\ wlpResult = "failed") ~> (LayerExecuted \/ mStopRequested)

\* C12: when the session is lost after a successful write_layer_parameters
\* while the consumer waits for the PLC, the consumer eventually ends with
\* the laser disabled and finished emitted, without waiting for the
\* operator to request a stop.
C12_SessionLossEndsRun ==
    (WaitingForPLC /\ wlpResult = "ok" /\ workerOpc = "lost")
    ~> (consumerPc \in {"c_done", "c_off"} \/ mStopRequested)


\* C15: within one session (from one initialize to the next) the
\* connectionLost notification is emitted at most once, however many threads
\* see the session closed, and once the loss is marked and its notifier has
\* returned it has been emitted exactly once.
C15_ConnectionLostOnce ==
    /\ lostEmitted <= 1
    /\ (mConnectionLost /\ \A t \in ClientThreads : cliPc[t] # "h_emit")
          => lostEmitted = 1

\* C15 case: the notification is out and a second thread that saw the closed
\* session found the loss already marked.
C15_SecondObserver ==
    /\ lostEmitted = 1
    /\ \E t \in ClientThreads : cliPc[t] = "h_log"

\* C16: no thread holds mStateMutex while a call into the OPC UA library
\* (a node read or write, UA_Client_connect) is in progress.
C16_NoStateMutexDuringUaCall ==
    \A t \in ClientThreads :
        cliPc[t] \in {"n_call", "i_connect"} => mStateMutex # t

\* C17: no thread holds mUaCallMutex while it emits a notification (a log
\* message, connectionLost).
C17_NoCallMutexDuringEmit ==
    \A t \in ClientThreads :
        cliPc[t] \in {"n_log", "h_emit", "h_log"} => mUaCallMutex # t

\* C18: a thread that is acquiring mStateMutex holds neither mUaCallMutex
\* nor mStateMutex itself, and no thread holds both mutexes.
C18_NoNestedLocking ==
    \A t \in ClientThreads :
        /\ cliPc[t] \in {"h_lock", "e_relock", "e_hung"}
              => (mUaCallMutex # t /\ mStateMutex # t)
        /\ ~(mStateMutex = t /\ mUaCallMutex = t)

\* C21: once an owner thread is recorded, an adapter operation reaches the
\* device only when it is called from the owner thread.
C21_OnlyOwnerReachesDevice ==
    (adLast.outcome = "device" /\ adLast.owner # "none")
        => adLast.thread = adLast.owner

\* C22: every step in which the consumer task terminates emits finished
\* (the signal is queued for the GUI in that step), whatever made it stop.
C22_TerminationEmitsFinished ==
    [][(consumerPc # "c_done" /\ consumerPc' = "c_done")
           => "finished" \in pending']_vars

\* C23: when the producer has failed on a layer (read error or conversion
\* failure), producer_finished becomes true and the consumer task ends.
C23_ProducerFailureEndsRun ==
    /\ (producerPc = "p_fail") ~> mProducerFinished
    /\ (producerPc = "p_fail") ~> (consumerPc \in {"c_done", "c_off"})

\* C28: in the PLC simulator LaySurface_Done rises only during a
\* preparation, a preparation starts only on LaySurface = TRUE (with
\* LaySurface_Done cleared), it ends only on LaySurface = FALSE together
\* with LaySurface_Done, and so LaySurface_Done implies PreparingLayer.
C28_DoneOnlyWhilePreparing ==
    [][/\ (~LaySurface_Done /\ LaySurface_Done')
            => (PreparingLayer /\ PreparingLayer')
       /\ (~PreparingLayer /\ PreparingLayer')
            => (LaySurface /\ ~LaySurface_Done')
       /\ (PreparingLayer /\ ~PreparingLayer')
            => (~LaySurface /\ ~LaySurface_Done')
       /\ LaySurface_Done' => PreparingLayer']_vars

\* C28 case: a preparation has completed and LaySurface has been withdrawn,
\* so that the reset of both tags is due.
C28_CompletedCycleWithdrawn ==
    LaySurface_Done /\ PreparingLayer /\ ~LaySurface

\* C27: in a test run of one layer the observers receive no progress(1,1)
\* before layer_executed(1), and nothing after finished.
C27_TestEventsInOrder ==
    (mProcessMode = "Test" /\ mTotalLayers = 1) =>
        /\ \A i \in 1..Len(hObserved) :
              hObserved[i] = ProgressEvent(1, 1)
                 => \E j \in 1..(i - 1) : hObserved[j] = LayerExecutedEvent(1)
        /\ \A i \in 1..Len(hObserved) :
              hObserved[i] = FinishedEvent => i = Len(hObserved)

\* C30: a notifyPLCPrepared() that arrives when the consumer has found
\* plc-layer-ready false and is about to block, or is blocked, is not lost:
\* the consumer is eventually released from the wait (or a stop is
\* requested).
C30_NotifyNotLost ==
    (consumerPc \in {"c_plc_pre", "c_plc_blk"} /\ mPLCPrepared)
    ~> (~WaitingForPLC \/ mStopRequested)

SegmentRange(seg) == seg.startCmd..seg.endCmd

\* C24: when a block has a parameter segment, the segments' index ranges
\* together are exactly 0..|commands|-1, and a block without commands has
\* no segment.
C24_SegmentsCoverCommands ==
    /\ blkSegments # <<>> =>
          UNION {SegmentRange(blkSegments[i]) : i \in 1..Len(blkSegments)}
             = 0..(blkCommands - 1)
    /\ blkCommands = 0 => blkSegments = <<>>

\* C25: every parameter segment has start_cmd <= end_cmd (a geometry without
\* commands adds none) and ends before the next segment starts.
C25_SegmentsWellFormed ==
    /\ \A i \in 1..Len(blkSegments) :
          blkSegments[i].startCmd <= blkSegments[i].endCmd
    /\ \A i \in 1..(Len(blkSegments) - 1) :
          blkSegments[i].endCmd < blkSegments[i + 1].startCmd

\* C26: the layer parameters written for a block are (1, D, D) with D the
\* block's thickness in mm times 1000, and for the slice file of scenario
\* S2 they are (1, 200, 200).
C26_LayerParametersFromThickness ==
    wlpArgs # <<>> =>
        /\ wlpArgs = <<1, DeltaValue(blkThickness), DeltaValue(blkThickness)>>
        /\ blkNominal = S2Thickness =>
              wlpArgs = <<1, DeltaValue(S2Thickness), DeltaValue(S2Thickness)>>

\* C29: mmToBits is monotonic non-decreasing, its result lies within
\* -maxBits..maxBits, and it is +maxBits (-maxBits) for every input at or
\* beyond the positive (negative) field limit.
C29_MonotonicAndSaturating ==
    /\ calX <= calY => calBitsX <= calBitsY
    /\ calBitsX >= -maxBits /\ calBitsX <= maxBits
    /\ calX >= FieldLimit => calBitsX = maxBits
    /\ calX <= -FieldLimit => calBitsX = -maxBits

\* C29 case: one input beyond the field limit, saturated, and a smaller
\* one inside the field with a smaller, unsaturated result.
C29_SaturatedAndInside ==
    /\ calX > FieldLimit /\ calBitsX = maxBits
    /\ calY > 0 /\ calY < FieldLimit
    /\ calBitsY > 0 /\ calBitsY < calBitsX

\* a preparation has completed for the layer in hand (LaySurface_Done rose
\* after its write_layer_parameters) in a production run with the worker's
\* session up and no stop requested, and no notifyPLCPrepared() has been
\* made for it yet
PreparationUnnotified ==
    /\ mProcessMode = "Production" /\ workerOpc = "ready"
    /\ ~mStopRequested
    /\ hLayerEvents = <<"wlp", "edge">> /\ hNotified = 0

\* C31: in production with no stop request, a completed layer preparation
\* leads to exactly one notifyPLCPrepared() call: there is never more than
\* one call for a layer, and while the process is Running and polling, a
\* completed preparation that has not been notified is one the next poll
\* reports as a rising edge (the remembered LaySurface_Done is FALSE), also
\* after a pause and in a later run.
C31_PreparationNotifiedOnce ==
    /\ hNotified <= 1
    /\ (PreparationUnnotified /\ mState = "Running" /\ timerActive)
         => RisingEdge(mPreviousPowderSurfaceDone, LaySurface_Done)

\* C32: an emergency stop of the process controller, once it has dealt with
\* the PLC write (attempted or skipped), has reached the scheduler's
\* emergency stop: the emergency flag is set and the GUI thread is not
\* stuck inside the write, whatever the state of the GUI's PLC client.
C32_EStopReachesScheduler ==
    eStopPlcWrite # "none" => (mEmergencyStopFlag /\ gPc # "g_hung")

\* C33: no adapter operation locks the adapter's mutex again while its own
\* thread holds it, so every operation returns: between operations the
\* mutex is free, no thread is left blocked inside one holding it.
C33_AdapterOperationsReturn == scMutex = "free"

\* C34: the number of commands queued into the device list between a
\* prepare_list_for_layer and the next execute_list never exceeds
\* list_memory - 10, whatever the length of the block.
C34_BatchWithinListMemory == listQueued <= MaxCommandsPerBatch

\* C35: after a production run that ended by EOF (its consumer left the
\* loop on an empty queue with the producer finished), the next production
\* start whose systemReady arrives with the PLC client ready starts new
\* tasks: the handler goes on to create the consumer and the producer
\* (after which the state is Running).
C35_RestartAfterEof ==
    [][(/\ mProcessMode = "Production" /\ exitCause = "eof"
        /\ consumerPc = "c_done" /\ producerPc = "p_done"
        /\ "finished" \notin pending
        /\ mState = "Starting" /\ workerOpc = "ready"
        /\ "ready" \in pending /\ "ready" \notin pending')
            => gPc' = "start_mid"]_vars

\* C36: when systemReady is handled while the worker has initialised its
\* PLC client and has not shut it down, getOPCManager() returns the
\* (non-null) pointer of that client.
C36_ManagerPointerAtSystemReady ==
    [][(/\ "systemReady" \in wSignal /\ "systemReady" \notin wSignal'
        /\ wManager # "null")
            => hReadyPtr' = wManager]_vars

\* C37: stopWorkers() and emergencyStop() always return: once one of them
\* waits for the worker thread, the thread ends and the join returns.
C37_StopWorkersReturns ==
    (wGui \in {"join_stop", "join_estop"}) ~> (wGui = "idle")

\* C38: in a production run the producer reads the parameter library (layer
\* conversion) only after the consumer has finished loading it, and the
\* library is loaded at most once per run.
C38_LibraryLoadedBeforeRead ==
    /\ hStyleLoads <= 1
    /\ (mProcessMode = "Production" /\ producerPc = "p_read")
         => (hStyleLoads = 1 /\ consumerPc \notin {"c_off", "c_init"})

\* the producer converts a layer of a later production run
C38_ProducerReadsLoadedLibrary ==
    /\ mProcessMode = "Production" /\ producerPc = "p_read"
    /\ hStyleLoads = 1 /\ runs > 1

\* the consumer issues prepareListForLayer or executeList in this step
IssuesListCall ==
    \/ consumerPc = "c_prep" /\ consumerPc' = "c_cmd"
    \/ consumerPc = "c_gap" /\ consumerPc' = "c_wdone"

\* C39: while the process state is Paused, prepareListForLayer and
\* executeList are issued only for a layer the consumer had already taken
\* up when pause() was called.
C39_NoNewLayerWhilePaused ==
    [][(mState = "Paused" /\ IssuesListCall)
            => layerNumber <= hPauseLayer]_vars

\* C40: run() blocks only until stop(): once stop() has been called the
\* server loop exits and main's join of the server thread returns.
C40_RunEndsAfterStop ==
    (simMain = "joining") ~> (simPc = "returned" /\ simMain = "exited")

=========================================================================
